---------------------------- MODULE Spec2Model ----------------------------
(***************************************************************************)
(* Conveyance routing scheduler of EPA SWMM (JavaScript port),             *)
(* src/src/routing.js: routing_open, routing_getRoutingStep,               *)
(* routing_execute, routing_close, the inflow aggregator, the steady-state *)
(* detector, the loss/outflow reconciler and the routing-event sorter.     *)
(*                                                                         *)
(* Units.  Elapsed routing times (OldRoutingTime, NewRoutingTime,          *)
(* NewRuleTime, NewRunoffTime, ReportTime) are in milliseconds, routing    *)
(* steps in seconds, dates in seconds on the calendar axis                 *)
(* (getDateTime(t) = StartDateTime + t/1000).  All elapsed times in the    *)
(* model are whole seconds, so every division by 1000 is exact.  Flows and *)
(* masses are exact integers; tolerances are exact rationals or integers   *)
(* in the same unit.  Floating-point rounding is not modelled.             *)
(***************************************************************************)
EXTENDS Integers, Sequences, FiniteSets, TLC

VARIABLES
    pc,             \* position of the caller: which entry point may run next
    lastOp,         \* the entry point (or procedure) that ran last
    exception,      \* "none", or the JavaScript exception that ended the run
    ErrorCode,      \* the global error latch
    SortedLinks,    \* "null" or "array"
    NextEvent,      \* index (0-based) of the pending routing event
    BetweenEvents,  \* TRUE while the clock is outside every routing event
    NewRuleTime,    \* elapsed time (msec) of the last rule evaluation instant
    OldRoutingTime, \* elapsed routing time (msec) at the start of the step
    NewRoutingTime, \* elapsed routing time (msec) at the end of the step
    swmm_Event,     \* the routing events, a sequence of [start, end]
    eventsIn,       \* the event list as entered, before any sorting
    Node,           \* the nodes, a sequence of records
    hasChanged,     \* what inflowHasChanged returned in the last step ("none"
                    \* if the step did not call it)
    Link,           \* the links, a sequence of records
    Storage,        \* storage units: [evapLoss, exfilLoss] (volumes of the step)
    Conduit,        \* conduits: [barrels, evapLossRate, seepLossRate]
    Outfall,        \* outfalls: [routeTo, vRouted, wRouted]
    RuleStep,       \* control rule evaluation interval (sec), 0 if none
    RouteStep,      \* the user-supplied routing step (sec) passed as fixedStep
    SkipSteadyState, \* option: skip the flow solver in steady periods
    routingStep,    \* the step routing_getRoutingStep returned last
    inSteadyState,  \* the steady-state flag of the last routing_execute
    calls,          \* collaborator calls of the last entry point, in order
    Pollut,         \* the pollutants: [dwfConcen, gwConcen, rdiiConcen]
    Subcatch,       \* the subcatchments: [outNode, groundwater, area, lidArea];
                    \* groundwater is <<>> (none) or <<[node]>>
    Finflows,       \* the routing interface inflows file: [mode]
    IgnoreQuality,  \* option: no quality routing
    RptFlags,       \* reporting options: [flowStats]
    Env,            \* what the forcing-data providers can return in a step
    massbal,        \* the ledger's inflow totals of the step, by category
    agg             \* per inflow procedure: what it added to the nodes and
                    \* what it passed to the ledger in the step

schedVars == <<ErrorCode, SortedLinks, NextEvent, BetweenEvents, NewRuleTime,
               OldRoutingTime, NewRoutingTime, swmm_Event>>

cfgVars == <<RuleStep, RouteStep, SkipSteadyState, Pollut, Subcatch,
             Finflows, IgnoreQuality, RptFlags, Env>>

ledgerVars == <<massbal, agg>>

\* the object counts are the lengths of the object arrays
Nobjects ==
    [LINK |-> Len(Link), NODE |-> Len(Node), POLLUT |-> Len(Pollut),
     SUBCATCH |-> Len(Subcatch)]

netVars == <<Node, Link, Storage, Conduit, Outfall>>

vars == <<pc, lastOp, exception, schedVars, eventsIn, netVars, hasChanged,
          cfgVars, routingStep, inSteadyState, calls, ledgerVars>>

-----------------------------------------------------------------------------
(* Bounds of the model *)

MaxEvents == 3
MaxDate == 2
MaxNodes == 2

(* Program constants.  Flows are counted in units of TINY (1e-6 cfs), so    *)
(* FLOW_TOL (1e-5 cfs) is 10; LatFlowTol is the rational                    *)
(* LatFlowTolNum / LatFlowTolDen (the default 5 per cent).                  *)
TINY == 1
FLOW_TOL == 10
LatFlowTolNum == 5
LatFlowTolDen == 100

JUNCTION == 0
OUTFALL == 1
STORAGE == 2

FLOW_INFLOW == 0
CONCEN_INFLOW == 1
CONDUIT == 0

\* SysFlowTol and the step flow error are in per cent (the default is 5)
SysFlowTol == 5

\* the calendar date (sec) of elapsed time 0
StartDateTime == 100
ERR_MEMORY == 1

NO_FILE == 0
USE_FILE == 2

Categories == {"EXTERNAL_INFLOW", "DRY_WEATHER_INFLOW", "WET_WEATHER_INFLOW",
               "GROUNDWATER_INFLOW", "RDII_INFLOW"}

Mechanisms == {"External", "DryWeather", "WetWeather", "Groundwater", "RDII",
               "Iface"}

Zeros(n) == [p \in 1..n |-> 0]

\* the ledger's inflow totals after massbal_initTimeStepTotals; halfSteps
\* holds the time (msec) passed to each massbal_updateRoutingTotals call of
\* the latest step
ZeroLedger(np) ==
    [flow |-> [c \in Categories |-> 0], qual |-> [c \in Categories |-> Zeros(np)],
     outflow |-> 0, outQual |-> Zeros(np), outFlags |-> {},
     nodeLosses |-> <<>>, linkLosses |-> <<>>, flowError |-> 0,
     halfSteps |-> <<>>]

ZeroAgg(np) ==
    [m \in Mechanisms |->
        [nodeFlow |-> 0, ledFlow |-> 0, nodeQual |-> Zeros(np), ledQual |-> Zeros(np)]]

\* providers that return nothing
NoForcing ==
    [inObj |-> "undeclared", dwf |-> {0}, runoff |-> {0}, washoff |-> {0},
     runoffTimes |-> {<<0, 1000>>}, gw |-> {<<0, 0>>}, rdiiN |-> {0},
     iface |-> {<<>>}, sysOutflow |-> {0}, solver |-> {<<0, 0>>},
     conc |-> {0}, losses |-> {<<0, 0>>}, targets |-> {-1}, ruleTargets |-> {-1},
     flowErrors |-> {0},
     solverSteps |-> {1}, hotstart |-> NO_FILE]

Undefined == "undefined"

Abs(x) == IF x < 0 THEN -x ELSE x
MIN(a, b) == IF a < b THEN a ELSE b

-----------------------------------------------------------------------------
(* sortEvents: exchange sort by start, then one left-to-right clipping pass. *)
(* The sequences are 1-based: swmm_Event[i] of the code is ev[i+1].          *)

NumEventsOf(ev) == Len(ev)

ExchangeEvents(ev, i, j) ==
    [ev EXCEPT ![i] = ev[j], ![j] = ev[i]]

\* the swap test of a variant that also exchanges events with equal starts
SwapNeededOnTies(ev, i, j) ==
    ev[i].start >= ev[j].start

SwapNeeded(ev, i, j) ==
    ev[i].start > ev[j].start

RECURSIVE SortInner(_, _, _)
SortInner(ev, i, j) ==
    IF j > NumEventsOf(ev) THEN ev
    ELSE SortInner(IF SwapNeeded(ev, i, j) THEN ExchangeEvents(ev, i, j) ELSE ev,
                   i, j + 1)

RECURSIVE SortOuter(_, _)
SortOuter(ev, i) ==
    IF i > NumEventsOf(ev) - 1 THEN ev
    ELSE SortOuter(SortInner(ev, i, i + 1), i + 1)

\* a variant that repairs an overlap by moving the later event's start
ClipLaterStart(ev, i) ==
    IF ev[i].end > ev[i + 1].start
    THEN [ev EXCEPT ![i + 1].start = ev[i].end]
    ELSE ev

\* a variant that leaves overlapping events as they are
ClipNothing(ev, i) ==
    ev

\* a variant that cuts an overlapping event down to the later event's end
ClipToLaterEnd(ev, i) ==
    IF ev[i].end > ev[i + 1].start
    THEN [ev EXCEPT ![i].end = ev[i + 1].end]
    ELSE ev

ClipOne(ev, i) ==
    IF ev[i].end > ev[i + 1].start
    THEN [ev EXCEPT ![i].end = ev[i + 1].start]
    ELSE ev

RECURSIVE AdjustOverlaps(_, _)
AdjustOverlaps(ev, i) ==
    IF i > NumEventsOf(ev) - 1 THEN ev
    ELSE AdjustOverlaps(ClipOne(ev, i), i + 1)

sortEvents(ev) ==
    AdjustOverlaps(SortOuter(ev, 1), 1)

-----------------------------------------------------------------------------
(* The event sorter on its own: any entered event list, sorted as          *)
(* routing_open sorts it; a second call models a re-opened simulation.     *)

EventDates == 0..MaxDate
EventRecs == [start : EventDates, end : EventDates]
EventLists == UNION {[1..n -> EventRecs] : n \in 0..MaxEvents}

\* The shared variables before routing_open: NextEvent, BetweenEvents and
\* NewRuleTime are declared without a value; SortedLinks is an empty array.
SchedInitial ==
    /\ ErrorCode = 0
    /\ SortedLinks = "empty"
    /\ NextEvent = Undefined
    /\ BetweenEvents = Undefined
    /\ NewRuleTime = Undefined
    /\ OldRoutingTime = 0
    /\ NewRoutingTime = 0

\* No network, no options: the state of the parts a stand-alone procedure
\* does not touch.
IdleRest ==
    /\ Link = <<>>
    /\ Storage = <<>>
    /\ Conduit = <<>>
    /\ Outfall = <<>>
    /\ RuleStep = 0
    /\ RouteStep = 0
    /\ SkipSteadyState = FALSE
    /\ routingStep = Undefined
    /\ inSteadyState = Undefined
    /\ calls = <<>>
    /\ Pollut = <<>>
    /\ Subcatch = <<>>
    /\ Finflows = [mode |-> NO_FILE]
    /\ IgnoreQuality = FALSE
    /\ RptFlags = [flowStats |-> FALSE]
    /\ Env = NoForcing
    /\ massbal = ZeroLedger(0)
    /\ agg = ZeroAgg(0)

InitSort ==
    /\ pc = "entered"
    /\ lastOp = "none"
    /\ exception = "none"
    /\ SchedInitial
    /\ swmm_Event \in EventLists
    /\ eventsIn = swmm_Event
    /\ Node = <<>>
    /\ hasChanged = "none"
    /\ IdleRest

SortEventsCall ==
    /\ pc \in {"entered", "sorted"}
    /\ pc' = (IF pc = "entered" THEN "sorted" ELSE "resorted")
    /\ lastOp' = "sortEvents"
    /\ swmm_Event' = sortEvents(swmm_Event)
    /\ UNCHANGED <<exception, ErrorCode, SortedLinks, NextEvent, BetweenEvents,
                   NewRuleTime, OldRoutingTime, NewRoutingTime, eventsIn,
                   netVars, hasChanged, cfgVars, routingStep, inSteadyState,
                   calls, ledgerVars>>

NextSort == SortEventsCall

SpecSort == InitSort /\ [][NextSort]_vars

-----------------------------------------------------------------------------
(* Properties of sortEvents *)

Sorted(ev) ==
    \A i \in 1..(Len(ev) - 1) : ev[i].start <= ev[i + 1].start

NonOverlapping(ev) ==
    \A i \in 1..(Len(ev) - 1) : ev[i].end <= ev[i + 1].start

WasSorted == pc \in {"sorted", "resorted"}

\* C5: after sortEvents, for any entered list, the events are in ascending
\* order of start and every event's end is <= the start of the next event.
C5_SortedNonOverlapping ==
    WasSorted => Sorted(swmm_Event) /\ NonOverlapping(swmm_Event)

C5_Witness ==
    /\ pc = "sorted"
    /\ Len(eventsIn) = 3
    /\ ~Sorted(eventsIn)
    /\ \E i \in 1..2 : swmm_Event[i].end = swmm_Event[i + 1].start
                       /\ \A k \in 1..3 : eventsIn[k].end > swmm_Event[i].end

\* C6: sortEvents is idempotent: a sorted, non-overlapping list is left as it
\* is, and a second application returns what the first returned.
C6_Idempotent ==
    /\ (pc = "sorted" /\ Sorted(eventsIn) /\ NonOverlapping(eventsIn))
          => swmm_Event = eventsIn
    /\ pc = "sorted" => sortEvents(swmm_Event) = swmm_Event
    /\ pc = "resorted" => swmm_Event = sortEvents(eventsIn)

C6_Witness ==
    /\ pc = "resorted"
    /\ Len(eventsIn) = 3
    /\ swmm_Event # eventsIn
    /\ \E i \in 1..2 : eventsIn[i].start = eventsIn[i + 1].start

\* C7: two events A and B with A.start < B.start < A.end, entered in either
\* order, come out as A with its end clipped to B.start, followed by B.
OverlapPair(a, b) == a.start < b.start /\ b.start < a.end

C7_OverlapRepair ==
    (pc = "sorted" /\ Len(eventsIn) = 2) =>
        \A x, y \in {1, 2} :
            (x # y /\ OverlapPair(eventsIn[x], eventsIn[y])) =>
                swmm_Event = << [start |-> eventsIn[x].start,
                                 end |-> eventsIn[y].start],
                                eventsIn[y] >>

C7_Witness ==
    /\ pc = "sorted"
    /\ Len(eventsIn) = 2
    /\ OverlapPair(eventsIn[2], eventsIn[1])
    /\ swmm_Event[1].end = eventsIn[1].start
    /\ swmm_Event[1].end < eventsIn[2].end

-----------------------------------------------------------------------------
(* inflowHasChanged: the steady-state detector. *)

\* |diff| > LatFlowTol for the relative change diff of qNew against qOld.
\* For |qOld| > TINY, |qNew/qOld - 1| > Num/Den is decided exactly as
\* |qNew - qOld| * Den > Num * |qOld|.
\* A variant that tests diff > LatFlowTol without taking |diff|:
ExceedsTolSigned(qOld, qNew) ==
    IF Abs(qOld) > TINY
    THEN IF qOld > 0
         THEN (qNew - qOld) * LatFlowTolDen > LatFlowTolNum * qOld
         ELSE (qOld - qNew) * LatFlowTolDen > LatFlowTolNum * (-qOld)
    ELSE IF Abs(qNew) > TINY
         THEN 1 * LatFlowTolDen > LatFlowTolNum
         ELSE 0 * LatFlowTolDen > LatFlowTolNum

ExceedsTol(qOld, qNew) ==
    IF Abs(qOld) > TINY
    THEN Abs(qNew - qOld) * LatFlowTolDen > LatFlowTolNum * Abs(qOld)
    ELSE IF Abs(qNew) > TINY
         THEN 1 * LatFlowTolDen > LatFlowTolNum
         ELSE 0 * LatFlowTolDen > LatFlowTolNum

\* A variant that tests the total inflow of every node, boundary or not:
IsBoundaryNodeAll(nd) ==
    TRUE

IsBoundaryNode(nd) ==
    nd.type = OUTFALL \/ nd.degree = 0

RECURSIVE HasChangedFrom(_, _)
HasChangedFrom(N, j) ==
    IF j > Len(N) THEN FALSE
    ELSE IF ExceedsTol(N[j].oldLatFlow, N[j].newLatFlow) THEN TRUE
    ELSE IF IsBoundaryNode(N[j])
            /\ ExceedsTol(N[j].oldFlowInflow, N[j].inflow) THEN TRUE
    ELSE HasChangedFrom(N, j + 1)

inflowHasChanged(N) ==
    HasChangedFrom(N, 1)

-----------------------------------------------------------------------------
(* The steady-state detector on its own: any node array, as the            *)
(* aggregation phase of a step may have left it.                           *)

FlowVals == {-20, 0, 1, 20}
LatFlowPairs == (FlowVals \X FlowVals) \cup {<<20, 21>>}
BoundaryFlowPairs == {<<20, 20>>, <<0, 20>>}

NodeRec(type, degree, oldLat, newLat, oldIn, in) ==
    [type |-> type, degree |-> degree,
     oldLatFlow |-> oldLat, newLatFlow |-> newLat,
     oldFlowInflow |-> oldIn, inflow |-> in,
     oldNetInflow |-> 0, outflow |-> 0, newQual |-> <<>>,
     extInflow |-> <<>>, dwfInflow |-> <<>>, subIndex |-> 0]

\* An interior node's total inflow is never read: it is left changed.
DetectorNodes ==
    {NodeRec(JUNCTION, 1, q[1], q[2], 0, 20) : q \in LatFlowPairs}
    \cup {NodeRec(k[1], k[2], q[1], q[2], p[1], p[2]) :
             k \in {<<OUTFALL, 1>>, <<JUNCTION, 0>>},
             q \in LatFlowPairs, p \in BoundaryFlowPairs}

InitChanged ==
    /\ pc = "aggregated"
    /\ lastOp = "none"
    /\ exception = "none"
    /\ SchedInitial
    /\ swmm_Event = <<>>
    /\ eventsIn = <<>>
    /\ Node \in UNION {[1..n -> DetectorNodes] : n \in 1..MaxNodes}
    /\ hasChanged = "none"
    /\ IdleRest

InflowHasChangedCall ==
    /\ pc = "aggregated"
    /\ pc' = "tested"
    /\ lastOp' = "inflowHasChanged"
    /\ hasChanged' = inflowHasChanged(Node)
    /\ UNCHANGED <<exception, schedVars, eventsIn, netVars, cfgVars,
                   routingStep, inSteadyState, calls, ledgerVars>>

NextChanged == InflowHasChangedCall

SpecChanged == InitChanged /\ [][NextChanged]_vars

\* The relative change of the claim, as an exact rational comparison:
\* new/old - 1 when |old| > TINY, 1 when |old| <= TINY < |new|, 0 otherwise.
RelChangeExceeds(qOld, qNew, num, den) ==
    \/ Abs(qOld) > TINY /\ Abs(qNew - qOld) * den > num * Abs(qOld)
    \/ Abs(qOld) <= TINY /\ Abs(qNew) > TINY /\ den > num

\* C8: inflowHasChanged returns false when every node's newLatFlow equals its
\* oldLatFlow and every outfall or degree-0 node's inflow equals its
\* oldFlowInflow, and true when some node's lateral inflow has changed by
\* more than LatFlowTol.
C8_HasChanged ==
    pc = "tested" =>
        /\ ( \A j \in 1..Len(Node) :
                /\ Node[j].newLatFlow = Node[j].oldLatFlow
                /\ (Node[j].type = OUTFALL \/ Node[j].degree = 0)
                      => Node[j].inflow = Node[j].oldFlowInflow )
              => hasChanged = FALSE
        /\ ( \E j \in 1..Len(Node) :
                RelChangeExceeds(Node[j].oldLatFlow, Node[j].newLatFlow,
                                 LatFlowTolNum, LatFlowTolDen) )
              => hasChanged = TRUE

C8_Witness ==
    /\ pc = "tested"
    /\ Len(Node) = 2
    /\ hasChanged = TRUE
    /\ Node[1].newLatFlow = Node[1].oldLatFlow
    /\ Node[1].type = OUTFALL /\ Node[1].inflow = Node[1].oldFlowInflow
    /\ Node[2].oldLatFlow = 20 /\ Node[2].newLatFlow = 0
    /\ Node[2].type = JUNCTION /\ Node[2].degree = 1

-----------------------------------------------------------------------------
(* The inflow aggregator.  A procedure works on S = [Node, massbal, agg,    *)
(* calls, exc]: the node array, the ledger totals, the per-procedure sums,  *)
(* the collaborator calls made so far and the exception thrown, if any.     *)
(* F holds what the forcing-data providers return in this step.  Node,      *)
(* pollutant and subcatchment indices are the code's (0-based, -1 for       *)
(* none); sequence positions are index + 1.                                 *)

Call(S, name) ==
    [S EXCEPT !.calls = Append(@, name)]

Throw(S, e) ==
    [S EXCEPT !.exc = e]

\* a variant that assigns the flow to newLatFlow instead of adding it
SetLatFlow(S, m, j, q) ==
    [S EXCEPT !.Node[j + 1].newLatFlow = q, !.agg[m].nodeFlow = @ + q]

\* Node[j].newLatFlow += q
AddLatFlow(S, m, j, q) ==
    [S EXCEPT !.Node[j + 1].newLatFlow = @ + q, !.agg[m].nodeFlow = @ + q]

\* Node[j].newQual[p] += w
AddQual(S, m, j, p, w) ==
    [S EXCEPT !.Node[j + 1].newQual[p + 1] = @ + w, !.agg[m].nodeQual[p + 1] = @ + w]

massbal_addInflowFlow(S, m, cat, q) ==
    [Call(S, "massbal_addInflowFlow") EXCEPT
        !.massbal.flow[cat] = @ + q, !.agg[m].ledFlow = @ + q]

massbal_addInflowQual(S, m, cat, p, w) ==
    [Call(S, "massbal_addInflowQual") EXCEPT
        !.massbal.qual[cat][p + 1] = @ + w, !.agg[m].ledQual[p + 1] = @ + w]

\* a variant of lines 375 and 452 that keeps flows below the tolerance
KeepBelowTol(q) ==
    q

ZeroIfBelowTol(q) ==
    IF Abs(q) < FLOW_TOL THEN 0 ELSE q

NumNodes(S) == Len(S.Node)

(* addExternalInflows *)

RECURSIVE FindFlowInflow(_, _)
FindFlowInflow(list, k) ==
    IF k > Len(list) THEN 0
    ELSE IF list[k].type = FLOW_INFLOW THEN k
    ELSE FindFlowInflow(list, k + 1)

\* a variant that reports the flow to the ledger after the reverse-flow
\* correction of an outfall instead of before it
ExtLedgerFlowAfterCorrection(nd, q) ==
    IF nd.type = OUTFALL /\ nd.oldNetInflow < 0 THEN q - nd.oldNetInflow ELSE q

\* the flow passed to massbal_addInflowFlow for node nd
ExtLedgerFlow(nd, q) ==
    q

\* a variant that adds the reverse flow through an outfall to the node's
\* lateral inflow as well
ExtLatFlowWithReverse(nd, q) ==
    IF nd.type = OUTFALL /\ nd.oldNetInflow < 0 THEN q - nd.oldNetInflow ELSE q

\* line 378: the flow added to the lateral inflow of node nd
ExtLatFlow(nd, q) ==
    q

\* a variant of lines 375-385 that corrects the flow as the provider
\* returned it, before the tolerance test
ScalingFlowUnzeroed(nd, q, raw) ==
    IF nd.type = OUTFALL /\ nd.oldNetInflow < 0
    THEN ZeroIfBelowTol(raw - nd.oldNetInflow) ELSE q

\* lines 382-385: the flow that scales the concentration records of node
\* nd; q is the flow after the tolerance test, raw the provider's value
ScalingFlow(nd, q, raw) ==
    IF nd.type = OUTFALL /\ nd.oldNetInflow < 0 THEN q - nd.oldNetInflow ELSE q

RECURSIVE ExtQualLoop(_, _, _, _, _)
ExtQualLoop(S, F, j, k, q) ==
    LET list == S.Node[j + 1].extInflow IN
    IF k > Len(list) THEN S
    ELSE IF list[k].type # FLOW_INFLOW
    THEN LET p == list[k].param
             w0 == F.ext[<<j, k>>]
             w == IF list[k].type = CONCEN_INFLOW THEN w0 * q ELSE w0
             S1 == AddQual(Call(S, "inflow_getExtInflow"), "External", j, p, w)
         IN ExtQualLoop(massbal_addInflowQual(S1, "External", "EXTERNAL_INFLOW", p, w),
                        F, j, k + 1, q)
    ELSE ExtQualLoop(S, F, j, k + 1, q)

ExtNode(S, F, j) ==
    LET nd == S.Node[j + 1]
        list == nd.extInflow
        kf == FindFlowInflow(list, 1)
        q == ZeroIfBelowTol(IF kf = 0 THEN 0 ELSE F.ext[<<j, kf>>])
        S1 == IF kf = 0 THEN S ELSE Call(S, "inflow_getExtInflow")
        S2 == massbal_addInflowFlow(AddLatFlow(S1, "External", j, ExtLatFlow(nd, q)),
                                    "External", "EXTERNAL_INFLOW", ExtLedgerFlow(nd, q))
        qc == ScalingFlow(nd, q, IF kf = 0 THEN 0 ELSE F.ext[<<j, kf>>])
    IN IF Len(list) = 0 THEN S ELSE ExtQualLoop(S2, F, j, 1, qc)

RECURSIVE ExtLoop(_, _, _)
ExtLoop(S, F, j) ==
    IF j >= NumNodes(S) THEN S ELSE ExtLoop(ExtNode(S, F, j), F, j + 1)

addExternalInflows(S, F) ==
    IF S.exc # "none" THEN S ELSE ExtLoop(Call(S, "addExternalInflows"), F, 0)

(* addDryWeatherInflows.  inflow_getDwfInflow is called with inObj, a name  *)
(* this file never declares: the call throws a ReferenceError unless some   *)
(* other script defines a global of that name, and then it is evaluated on  *)
(* that object, not on the node's inflow record.                            *)

RECURSIVE FindDwfFlow(_, _)
FindDwfFlow(list, k) ==
    IF k > Len(list) THEN 0
    ELSE IF list[k].param < 0 THEN k
    ELSE FindDwfFlow(list, k + 1)

RECURSIVE DwfDefaultLoop(_, _, _, _, _)
DwfDefaultLoop(S, P, j, p, q) ==
    IF p >= Len(P) THEN S
    ELSE IF P[p + 1].dwfConcen > 0
    THEN LET w == q * P[p + 1].dwfConcen
         IN DwfDefaultLoop(
                massbal_addInflowQual(AddQual(S, "DryWeather", j, p, w),
                                      "DryWeather", "DRY_WEATHER_INFLOW", p, w),
                P, j, p + 1, q)
    ELSE DwfDefaultLoop(S, P, j, p + 1, q)

RECURSIVE DwfQualLoop(_, _, _, _, _, _)
DwfQualLoop(S, F, P, j, k, q) ==
    LET list == S.Node[j + 1].dwfInflow IN
    IF k > Len(list) THEN S
    ELSE IF list[k].param >= 0
    THEN IF F.inObj = "undeclared" THEN Throw(S, "ReferenceError")
         ELSE
         LET p == list[k].param
             w == q * F.dwf[<<j, k>>]
             S1 == massbal_addInflowQual(
                       AddQual(Call(S, "inflow_getDwfInflow"), "DryWeather", j, p, w),
                       "DryWeather", "DRY_WEATHER_INFLOW", p, w)
             wd == q * P[p + 1].dwfConcen
             S2 == IF P[p + 1].dwfConcen > 0
                   THEN massbal_addInflowQual(
                            AddQual(S1, "DryWeather", j, p, -wd),
                            "DryWeather", "DRY_WEATHER_INFLOW", p, -wd)
                   ELSE S1
         IN DwfQualLoop(S2, F, P, j, k + 1, q)
    ELSE DwfQualLoop(S, F, P, j, k + 1, q)

DwfNode(S, F, P, j) ==
    LET list == S.Node[j + 1].dwfInflow
        kf == FindDwfFlow(list, 1)
        q == ZeroIfBelowTol(IF kf = 0 THEN 0 ELSE F.dwf[<<j, kf>>])
        S1 == IF kf = 0 THEN S ELSE Call(S, "inflow_getDwfInflow")
        S2 == massbal_addInflowFlow(AddLatFlow(S1, "DryWeather", j, q),
                                    "DryWeather", "DRY_WEATHER_INFLOW", q)
    IN IF Len(list) = 0 THEN S
       ELSE IF kf # 0 /\ F.inObj = "undeclared" THEN Throw(S, "ReferenceError")
       ELSE IF q <= 0 THEN S2
       ELSE DwfQualLoop(DwfDefaultLoop(S2, P, j, 0, q), F, P, j, 1, q)

RECURSIVE DwfLoop(_, _, _, _)
DwfLoop(S, F, P, j) ==
    IF j >= NumNodes(S) \/ S.exc # "none" THEN S
    ELSE DwfLoop(DwfNode(S, F, P, j), F, P, j + 1)

addDryWeatherInflows(S, F, P) ==
    IF S.exc # "none" THEN S
    ELSE DwfLoop(Call(Call(Call(Call(S, "addDryWeatherInflows"),
                    "datetime_monthOfYear"), "datetime_dayOfWeek"),
                    "datetime_hourOfDay"), F, P, 0)

(* The interpolation fraction f = (routingTime - OldRunoffTime) /           *)
(* (NewRunoffTime - OldRunoffTime), clamped to [0, 1], is kept as the pair  *)
(* <<numerator, denominator>>; F.runoffTimes = <<OldRunoffTime,             *)
(* NewRunoffTime>> with NewRunoffTime > OldRunoffTime.                      *)

RunoffFraction(F, routingTime) ==
    LET den == F.runoffTimes[2] - F.runoffTimes[1]
        num == routingTime - F.runoffTimes[1]
    IN <<IF num < 0 THEN 0 ELSE IF num > den THEN den ELSE num, den>>

(* addWetWeatherInflows *)

RECURSIVE WetQualLoop(_, _, _, _, _, _)
WetQualLoop(S, F, P, i, j, p) ==
    IF p >= Len(P) THEN S
    ELSE LET w == F.washoff[<<i, p>>]
             S1 == AddQual(Call(S, "surfqual_getWtdWashoff"), "WetWeather", j, p, w)
         IN WetQualLoop(
                massbal_addInflowQual(S1, "WetWeather", "WET_WEATHER_INFLOW", p, w),
                F, P, i, j, p + 1)

WetSubcatch(S, F, P, SC, i) ==
    LET j == SC[i + 1].outNode
        q == F.runoff[i]
        S1 == AddLatFlow(Call(S, "subcatch_getWtdOutflow"), "WetWeather", j, q)
    IN IF j >= 0
       THEN WetQualLoop(massbal_addInflowFlow(S1, "WetWeather", "WET_WEATHER_INFLOW", q),
                        F, P, i, j, 0)
       ELSE S

RECURSIVE WetLoop(_, _, _, _, _)
WetLoop(S, F, P, SC, i) ==
    IF i >= Len(SC) THEN S
    ELSE WetLoop(WetSubcatch(S, F, P, SC, i), F, P, SC, i + 1)

addWetWeatherInflows(S, F, P, SC, routingTime) ==
    IF S.exc # "none" THEN S
    ELSE IF Len(SC) = 0 THEN Call(S, "addWetWeatherInflows")
    ELSE WetLoop(Call(S, "addWetWeatherInflows"), F, P, SC, 0)

(* addGroundwaterInflows *)

RECURSIVE GwQualLoop(_, _, _, _, _)
GwQualLoop(S, P, j, p, q) ==
    IF p >= Len(P) THEN S
    ELSE LET w == q * P[p + 1].gwConcen
         IN GwQualLoop(
                massbal_addInflowQual(AddQual(S, "Groundwater", j, p, w),
                                      "Groundwater", "GROUNDWATER_INFLOW", p, w),
                P, j, p + 1, q)

GwSubcatch(S, F, P, SC, i, f) ==
    LET gw == SC[i + 1].groundwater
        j == gw[1].node
        q == (((f[2] - f[1]) * F.gw[i][1] + f[1] * F.gw[i][2]) * SC[i + 1].area) \div f[2]
        S1 == massbal_addInflowFlow(AddLatFlow(S, "Groundwater", j, q),
                                    "Groundwater", "GROUNDWATER_INFLOW", q)
    IN IF gw = <<>> THEN S
       ELSE IF j < 0 THEN S
       ELSE IF Abs(q) < FLOW_TOL THEN S
       ELSE IF q > 0 THEN GwQualLoop(S1, P, j, 0, q)
       ELSE S1

RECURSIVE GwLoop(_, _, _, _, _, _)
GwLoop(S, F, P, SC, i, f) ==
    IF i >= Len(SC) THEN S
    ELSE GwLoop(GwSubcatch(S, F, P, SC, i, f), F, P, SC, i + 1, f)

addGroundwaterInflows(S, F, P, SC, routingTime) ==
    IF S.exc # "none" THEN S
    ELSE IF Len(SC) = 0 THEN Call(S, "addGroundwaterInflows")
    ELSE GwLoop(Call(S, "addGroundwaterInflows"), F, P, SC, 0,
                RunoffFraction(F, routingTime))

(* addLidDrainInflows: the drain flow is added by the LID subsystem. *)

RECURSIVE LidLoop(_, _, _)
LidLoop(S, SC, j) ==
    IF j >= Len(SC) THEN S
    ELSE LidLoop(IF SC[j + 1].area > 0 /\ SC[j + 1].lidArea > 0
                 THEN Call(S, "lid_addDrainInflow") ELSE S,
                 SC, j + 1)

addLidDrainInflows(S, SC, routingTime) ==
    IF S.exc # "none" THEN S
    ELSE IF Len(SC) = 0 THEN Call(S, "addLidDrainInflows")
    ELSE LidLoop(Call(S, "addLidDrainInflows"), SC, 0)

(* addRdiiInflows.  rdii_getRdiiFlow(i, j, q) is passed j and q by value,   *)
(* and both are still undefined after it: j < 0 and Math.abs(q) < FLOW_TOL  *)
(* are false, and Node[undefined].newLatFlow throws a TypeError.            *)

addRdiiInflows(S, F) ==
    IF S.exc # "none" THEN S
    ELSE LET S1 == Call(Call(S, "addRdiiInflows"), "rdii_getNumRdiiFlows")
         IN IF 0 < F.rdiiN
            THEN Throw(Call(S1, "rdii_getRdiiFlow"), "TypeError")
            ELSE S1

(* addIfaceInflows.  F.iface is the interface file's table at the current   *)
(* date: a sequence of [node, flow, qual].                                  *)

RECURSIVE IfaceQualLoop(_, _, _, _, _, _)
IfaceQualLoop(S, F, P, i, p, q) ==
    IF p >= Len(P) THEN S
    ELSE LET j == F.iface[i + 1].node
             w == q * F.iface[i + 1].qual[p + 1]
             S1 == AddQual(Call(S, "iface_getIfaceQual"), "Iface", j, p, w)
         IN IfaceQualLoop(
                massbal_addInflowQual(S1, "Iface", "EXTERNAL_INFLOW", p, w),
                F, P, i, p + 1, q)

IfaceEntry(S, F, P, i) ==
    LET j == F.iface[i + 1].node
        q == F.iface[i + 1].flow
        S0 == Call(S, "iface_getIfaceNode")
        S1 == Call(S0, "iface_getIfaceFlow")
        S2 == massbal_addInflowFlow(AddLatFlow(S1, "Iface", j, q),
                                    "Iface", "EXTERNAL_INFLOW", q)
    IN IF j < 0 THEN S0
       ELSE IF Abs(q) < FLOW_TOL THEN S1
       ELSE IF q > 0 THEN IfaceQualLoop(S2, F, P, i, 0, q)
       ELSE S2

RECURSIVE IfaceLoop(_, _, _, _)
IfaceLoop(S, F, P, i) ==
    IF i >= Len(F.iface) THEN S
    ELSE IfaceLoop(IfaceEntry(S, F, P, i), F, P, i + 1)

addIfaceInflows(S, F, P, FI) ==
    IF S.exc # "none" THEN S
    ELSE IF FI.mode # USE_FILE THEN Call(S, "addIfaceInflows")
    ELSE IfaceLoop(Call(Call(S, "addIfaceInflows"), "iface_getNumIfaceNodes"), F, P, 0)

(* The loss/outflow reconciler. *)

\* a variant that takes the loss of whatever Node[i].subIndex points at in
\* Storage, storage node or not
RECURSIVE StorageLossSumAllNodes(_, _, _, _)
StorageLossSumAllNodes(N, ST, i, field) ==
    IF i >= Len(N) THEN 0
    ELSE ST[N[i + 1].subIndex + 1][field] + StorageLossSumAllNodes(N, ST, i + 1, field)

RECURSIVE StorageLossSum(_, _, _, _)
StorageLossSum(N, ST, i, field) ==
    IF i >= Len(N) THEN 0
    ELSE (IF N[i + 1].type = STORAGE THEN ST[N[i + 1].subIndex + 1][field] ELSE 0)
         + StorageLossSum(N, ST, i + 1, field)

\* the rates are volume / tStep; the model's volumes are multiples of tStep
removeStorageLosses(S, ST, tStep) ==
    IF S.exc # "none" THEN S
    ELSE [Call(Call(S, "removeStorageLosses"), "massbal_addNodeLosses") EXCEPT
            !.massbal.nodeLosses =
                << StorageLossSum(S.Node, ST, 0, "evapLoss") \div tStep,
                   StorageLossSum(S.Node, ST, 0, "exfilLoss") \div tStep >>]

RECURSIVE ConduitLossSum(_, _, _, _)
ConduitLossSum(L, C, i, field) ==
    IF i >= Len(L) THEN 0
    ELSE (IF L[i + 1].type = CONDUIT
          THEN C[L[i + 1].subIndex + 1][field] * C[L[i + 1].subIndex + 1].barrels
          ELSE 0)
         + ConduitLossSum(L, C, i + 1, field)

removeConduitLosses(S, L, C) ==
    IF S.exc # "none" THEN S
    ELSE [Call(Call(S, "removeConduitLosses"), "massbal_addLinkLosses") EXCEPT
            !.massbal.linkLosses = << ConduitLossSum(L, C, 0, "evapLossRate"),
                                      ConduitLossSum(L, C, 0, "seepLossRate") >>]

massbal_addOutflowQual(S, p, w, isFlooded) ==
    [Call(S, "massbal_addOutflowQual") EXCEPT
        !.massbal.outQual[p + 1] = @ + w,
        !.massbal.outFlags = @ \cup {isFlooded}]

RECURSIVE RoutedQualLoop(_, _, _, _, _)
RoutedQualLoop(S, i, k, p, v) ==
    IF p >= Nobjects.POLLUT THEN S
    ELSE RoutedQualLoop(
             [S EXCEPT !.Outfall[k + 1].wRouted[p + 1] = @ + S.Node[i + 1].newQual[p + 1] * v],
             i, k, p + 1, v)

RECURSIVE OutflowQualLoop(_, _, _, _, _)
OutflowQualLoop(S, i, p, q, isFlooded) ==
    IF p >= Nobjects.POLLUT THEN S
    ELSE OutflowQualLoop(
             massbal_addOutflowQual(S, p, q * S.Node[i + 1].newQual[p + 1], isFlooded),
             i, p + 1, q, isFlooded)

\* node_getSystemOutflow(i, isFlooded) is passed isFlooded by value: the
\* flag handed on to the ledger is still undefined.
OutflowNode(S, F, i, tStep) ==
    LET nd == S.Node[i + 1]
        k == nd.subIndex
        v == nd.inflow * tStep
        S1 == IF nd.type = OUTFALL /\ nd.inflow > 0 /\ S.Outfall[k + 1].routeTo >= 0
              THEN RoutedQualLoop([S EXCEPT !.Outfall[k + 1].vRouted = @ + v], i, k, 0, v)
              ELSE S
        q == F.sysOutflow[i]
        S2 == Call(S1, "node_getSystemOutflow")
        S3 == IF q > 0
              THEN OutflowQualLoop(
                       [Call(S2, "massbal_addOutflowFlow") EXCEPT
                           !.massbal.outflow = @ + q,
                           !.massbal.outFlags = @ \cup {Undefined}],
                       i, 0, q, Undefined)
              ELSE [Call(S2, "massbal_addInflowFlow") EXCEPT
                       !.massbal.flow["EXTERNAL_INFLOW"] = @ + (-q)]
        ql == nd.newLatFlow
    IN IF ql < 0 THEN OutflowQualLoop(S3, i, 0, -ql, "false") ELSE S3

RECURSIVE OutflowLoop(_, _, _, _)
OutflowLoop(S, F, i, tStep) ==
    IF i >= NumNodes(S) THEN S
    ELSE OutflowLoop(OutflowNode(S, F, i, tStep), F, i + 1, tStep)

removeOutflows(S, F, tStep) ==
    IF S.exc # "none" THEN S
    ELSE OutflowLoop(Call(S, "removeOutflows"), F, 0, tStep)

-----------------------------------------------------------------------------
(* What the collaborators can return in one step: one value for every call  *)
(* a step can make, drawn from the sets in Env and in the inflow records.   *)

ExtIdx ==
    UNION {{<<j - 1, k>> : k \in 1..Len(Node[j].extInflow)} : j \in 1..Len(Node)}

DwfIdx ==
    UNION {{<<j - 1, k>> : k \in 1..Len(Node[j].dwfInflow)} : j \in 1..Len(Node)}

ExtForcings ==
    {f \in [ExtIdx -> UNION {Node[x[1] + 1].extInflow[x[2]].vals : x \in ExtIdx}] :
        \A x \in ExtIdx : f[x] \in Node[x[1] + 1].extInflow[x[2]].vals}

NodeIdx == 0..(Len(Node) - 1)
LinkIdx == 0..(Len(Link) - 1)
PollutIdx == 0..(Len(Pollut) - 1)
SubcatchIdx == 0..(Len(Subcatch) - 1)

StepForcings ==
    [inObj : {Env.inObj},
     ext : ExtForcings,
     dwf : [DwfIdx -> Env.dwf],
     runoff : [SubcatchIdx -> Env.runoff],
     washoff : [SubcatchIdx \X PollutIdx -> Env.washoff],
     runoffTimes : Env.runoffTimes,
     gw : [SubcatchIdx -> Env.gw],
     rdiiN : Env.rdiiN,
     iface : Env.iface,
     sysOutflow : [NodeIdx -> Env.sysOutflow],
     solver : [NodeIdx -> Env.solver],
     conc : [NodeIdx \X PollutIdx -> Env.conc],
     losses : [0..(Len(Storage) - 1) -> Env.losses],
     pumpTarget : [LinkIdx -> Env.targets],
     ruleTarget : [LinkIdx -> Env.ruleTargets],
     stepFlowError : Env.flowErrors]

-----------------------------------------------------------------------------
(* routing_getRoutingStep *)

getDateTime(elapsedMsec) ==
    StartDateTime + elapsedMsec \div 1000

\* lines 142-157: the step between routing events.  kind is "step" (a
\* candidate was found), "return" (fixedStep is returned at once), "none"
\* (fall through with routingStep = 0) or "throw" (swmm_Event[NextEvent] is
\* undefined and .start is read from it)
\* a variant of the test of line 148 that forgets the pending event
CandidateFitsIgnoringEvent(date1, date2, start) ==
    date2 > date1

CandidateFits(date1, date2, start) ==
    date2 > date1 /\ date2 < start

BetweenEventsStep(fixedStep, NewRunoffTime, ReportTime) ==
    LET nextTime == MIN(NewRunoffTime, ReportTime)
        date1 == getDateTime(NewRoutingTime)
        date2 == getDateTime(nextTime)
    IN IF NextEvent >= Len(swmm_Event)
       THEN [kind |-> "throw", value |-> 0]
       ELSE IF CandidateFits(date1, date2, swmm_Event[NextEvent + 1].start)
       THEN [kind |-> "step", value |-> (nextTime - NewRoutingTime) \div 1000]
       ELSE IF getDateTime(NewRoutingTime + 1000 * fixedStep)
                   < swmm_Event[NextEvent + 1].start
       THEN [kind |-> "return", value |-> fixedStep]
       ELSE [kind |-> "none", value |-> 0]

\* lines 165-174
RuleStepLimit(step) ==
    IF RuleStep > 0
    THEN LET nextRuleTime == NewRuleTime + 1000 * RuleStep
             nextRoutingTime == NewRoutingTime + 1000 * step
         IN IF nextRoutingTime >= nextRuleTime
            THEN (nextRuleTime - NewRoutingTime) \div 1000
            ELSE step
    ELSE step

\* a variant of line 140 that sizes the step of a network without links
\* like any other
NoLinksNever ==
    FALSE

\* line 140
NoLinks ==
    Nobjects.LINK = 0

\* the value returned, the collaborator calls made and the exception thrown
routing_getRoutingStep(fixedStep, NewRunoffTime, ReportTime, solverStep) ==
    LET be == IF Len(swmm_Event) > 0 /\ BetweenEvents
              THEN BetweenEventsStep(fixedStep, NewRunoffTime, ReportTime)
              ELSE [kind |-> "none", value |-> 0]
    IN IF NoLinks
       THEN [ret |-> fixedStep, calls |-> <<>>, exc |-> "none"]
       ELSE IF be.kind = "throw"
       THEN [ret |-> Undefined, calls |-> <<>>, exc |-> "TypeError"]
       ELSE IF be.kind = "return"
       THEN [ret |-> fixedStep, calls |-> <<>>, exc |-> "none"]
       ELSE IF be.value = 0
       THEN [ret |-> RuleStepLimit(solverStep),
             calls |-> <<"flowrout_getRoutingStep">>, exc |-> "none"]
       ELSE [ret |-> RuleStepLimit(be.value), calls |-> <<>>, exc |-> "none"]

-----------------------------------------------------------------------------
(* routing_execute.  G holds the shared state the step works on:            *)
(* [Node, Link, Storage, Outfall, massbal, agg, calls, exc] (the S of the   *)
(* aggregator) and [NextEvent, BetweenEvents, NewRuleTime, OldRoutingTime,  *)
(* NewRoutingTime, actionCount, inSteadyState, hasChanged].                 *)

RECURSIVE CallEach(_, _, _)
CallEach(G, name, n) ==
    IF n = 0 THEN G ELSE CallEach(Call(G, name), name, n - 1)

\* line 202: link_setTargetSetting(j) may set a new target (-1: none)
RECURSIVE SetTargets(_, _, _, _)
SetTargets(G, tg, name, j) ==
    IF j >= Len(G.Link) THEN G
    ELSE SetTargets(
             [Call(G, name) EXCEPT !.Link[j + 1].targetSetting =
                                       IF tg[j] = -1 THEN @ ELSE tg[j]],
             tg, name, j + 1)

\* lines 207-212: the rule evaluator may set new targets
EvaluateRulesAlways(G, F) ==
    [Call(G, "controls_evaluate") EXCEPT
        !.Link = [j \in 1..Len(G.Link) |->
                     [G.Link[j] EXCEPT !.targetSetting =
                         IF F.ruleTarget[j - 1] = -1 THEN @ ELSE F.ruleTarget[j - 1]]]]

EvaluateRules(G, F) ==
    IF RuleStep = 0 \/ Abs(G.NewRoutingTime - G.NewRuleTime) < 1
    THEN EvaluateRulesAlways(G, F)
    ELSE G

\* a variant of line 220 that stamps every change of setting
SwitchedAlways(lk) ==
    TRUE

\* line 220: the link is switched between open and closed
Switched(lk) ==
    lk.targetSetting * lk.setting = 0

\* lines 215-227; link_setSetting makes the target the link's setting
RECURSIVE ApplySettings(_, _, _)
ApplySettings(G, currentDate, j) ==
    IF j >= Len(G.Link) THEN G
    ELSE LET lk == G.Link[j + 1]
             stamped == IF Switched(lk)
                        THEN [lk EXCEPT !.timeLastSet = currentDate] ELSE lk
         IN ApplySettings(
                IF lk.targetSetting # lk.setting
                THEN [Call(G, "link_setSetting") EXCEPT
                         !.Link[j + 1] = [stamped EXCEPT !.setting = lk.targetSetting],
                         !.actionCount = @ + 1]
                ELSE G,
                currentDate, j + 1)

\* a variant of line 230 that leaves OldRoutingTime where it was
OldTimeKept(G) ==
    G.OldRoutingTime

\* line 230: OldRoutingTime = NewRoutingTime
OldTimeAfterStep(G) ==
    G.NewRoutingTime

\* lines 229-235
AdvanceClock(G, step) ==
    LET new == G.NewRoutingTime + 1000 * step
    IN [G EXCEPT !.OldRoutingTime = OldTimeAfterStep(G),
                 !.NewRoutingTime = new,
                 !.NewRuleTime = IF Abs(new - (G.NewRuleTime + 1000 * RuleStep)) < 1
                                 THEN @ + 1000 * RuleStep ELSE @]

\* lines 237-239; the sampled flow error is kept in the ledger record
InitStepTotals(G, F) ==
    [Call(Call(G, "massbal_getStepFlowError"), "massbal_initTimeStepTotals") EXCEPT
        !.massbal = [ZeroLedger(Len(Pollut)) EXCEPT !.flowError = F.stepFlowError,
                                                    !.halfSteps = G.massbal.halfSteps],
        !.agg = ZeroAgg(Len(Pollut))]

\* lines 241-246; node_setOldQualState starts the node's new quality at zero
SetOldQualState(G) ==
    IF Nobjects.POLLUT > 0
    THEN [CallEach(CallEach(G, "node_setOldQualState", Len(G.Node)),
                   "link_setOldQualState", Len(G.Link)) EXCEPT
             !.Node = [j \in 1..Len(G.Node) |->
                          [G.Node[j] EXCEPT !.newQual = Zeros(Len(Pollut))]]]
    ELSE G

\* a variant of lines 252-257 that keeps the new lateral flows
RollLatFlowsKeepNew(G) ==
    [G EXCEPT !.Node = [j \in 1..Len(G.Node) |->
                           [G.Node[j] EXCEPT !.oldLatFlow = G.Node[j].newLatFlow]]]

\* lines 252-257
RollLatFlows(G) ==
    [G EXCEPT !.Node = [j \in 1..Len(G.Node) |->
                           [G.Node[j] EXCEPT !.oldLatFlow = G.Node[j].newLatFlow,
                                             !.newLatFlow = 0]]]

\* lines 259-271; swmm_Event[NextEvent] is undefined past the last event
\* a variant that opens the event window one tick late (currentDate > start)
EnterEventLate(currentDate, ev) ==
    currentDate > ev.start

\* a variant that enters the pending event at any date
EnterEventAnyDate(currentDate, ev) ==
    TRUE

EnterEvent(currentDate, ev) ==
    currentDate >= ev.start

EventBookkeeping(G, currentDate) ==
    IF Len(swmm_Event) > 0
    THEN IF G.NextEvent >= Len(swmm_Event) THEN Throw(G, "TypeError")
         ELSE IF currentDate > swmm_Event[G.NextEvent + 1].end
         THEN [G EXCEPT !.BetweenEvents = TRUE, !.NextEvent = @ + 1]
         ELSE IF EnterEvent(currentDate, swmm_Event[G.NextEvent + 1])
                 /\ G.BetweenEvents = TRUE
         THEN [G EXCEPT !.BetweenEvents = FALSE]
         ELSE G
    ELSE G

\* lines 276-280; node_getLosses leaves the step's loss volumes of each
\* storage unit in Storage
GetLosses(G, F) ==
    [CallEach(G, "node_getLosses", Len(G.Node)) EXCEPT
        !.Storage = [k \in 1..Len(G.Storage) |->
                        [evapLoss |-> F.losses[k - 1][1], exfilLoss |-> F.losses[k - 1][2]]]]

\* lines 282-289
AddInflows(G, F, currentDate) ==
    addIfaceInflows(
      addRdiiInflows(
        addLidDrainInflows(
          addGroundwaterInflows(
            addWetWeatherInflows(
              addDryWeatherInflows(addExternalInflows(G, F), F, Pollut),
              F, Pollut, Subcatch, G.OldRoutingTime),
            F, Pollut, Subcatch, G.OldRoutingTime),
          Subcatch, G.OldRoutingTime),
        F),
      F, Pollut, Finflows)

\* lines 291-299; inflowHasChanged is called only when the three tests
\* before it are false
\* a variant that forgets that the first step is never steady
FirstStepForcesRoutingNever(G) ==
    FALSE

FirstStepForcesRouting(G) ==
    G.OldRoutingTime = 0

\* a variant of line 294 that ignores the setting changes of the step
SettingsChangedNever(G) ==
    FALSE

\* line 294
SettingsChanged(G) ==
    G.actionCount > 0

SteadyStateTest(G) ==
    IF G.exc # "none" THEN G
    ELSE IF SkipSteadyState
    THEN IF FirstStepForcesRouting(G) \/ SettingsChanged(G)
            \/ Abs(G.massbal.flowError) > SysFlowTol
         THEN [G EXCEPT !.inSteadyState = FALSE]
         ELSE LET changed == inflowHasChanged(G.Node)
              IN [G EXCEPT !.hasChanged = changed, !.inSteadyState = ~changed]
    ELSE G

\* lines 304-310: node_setOldHydState keeps the node's total inflow and net
\* inflow as the previous ones, node_initInflow starts the total inflow of
\* the step at the lateral inflow
SetOldHydState(G) ==
    [CallEach(CallEach(CallEach(G, "link_setOldHydState", Len(G.Link)),
                       "node_setOldHydState", Len(G.Node)),
              "node_initInflow", Len(G.Node)) EXCEPT
        !.Node = [j \in 1..Len(G.Node) |->
                     [G.Node[j] EXCEPT !.oldFlowInflow = G.Node[j].inflow,
                                       !.oldNetInflow = G.Node[j].inflow - G.Node[j].outflow,
                                       !.inflow = G.Node[j].newLatFlow,
                                       !.outflow = 0]]]

\* lines 312-316: the flow solver adds the flow arriving through the links
\* to each connected node's inflow and sets its outflow
FlowroutExecute(G, F) ==
    IF Nobjects.LINK > 0
    THEN [Call(G, "flowrout_execute") EXCEPT
             !.Node = [j \in 1..Len(G.Node) |->
                          IF G.Node[j].degree > 0
                          THEN [G.Node[j] EXCEPT !.inflow = @ + F.solver[j - 1][1],
                                                 !.outflow = F.solver[j - 1][2]]
                          ELSE G.Node[j]]]
    ELSE G

\* lines 301-317
RouteFlow(G, F) ==
    IF G.exc # "none" THEN G
    ELSE IF G.inSteadyState = FALSE THEN FlowroutExecute(SetOldHydState(G), F)
    ELSE G

\* lines 319-323: the quality solver leaves concentrations in newQual
\* a variant of line 320 that routes quality only when flow was routed
QualityRoutedIfFlowRouted(G) ==
    Nobjects.POLLUT > 0 /\ ~IgnoreQuality /\ G.inSteadyState = FALSE

\* line 320
QualityRouted(G) ==
    Nobjects.POLLUT > 0 /\ ~IgnoreQuality

RouteQuality(G, F) ==
    IF G.exc # "none" THEN G
    ELSE IF QualityRouted(G)
    THEN [Call(G, "qualrout_execute") EXCEPT
             !.Node = [j \in 1..Len(G.Node) |->
                          [G.Node[j] EXCEPT !.newQual =
                              [p \in 1..Len(Pollut) |-> F.conc[<<j - 1, p - 1>>]]]]]
    ELSE G

\* lines 273-330
InEventStep(G, F, currentDate, step) ==
    LET G1 == SteadyStateTest(AddInflows(GetLosses(G, F), F, currentDate))
        G2 == RouteQuality(RouteFlow(G1, F), F)
    IN removeOutflows(
           removeConduitLosses(removeStorageLosses(G2, G2.Storage, step),
                               G2.Link, Conduit),
           F, step)

\* lines 198 and 334: massbal_updateRoutingTotals(routingStep / 2)
massbal_updateRoutingTotals(G, step) ==
    [Call(G, "massbal_updateRoutingTotals") EXCEPT
        !.massbal.halfSteps = Append(@, 500 * step)]

\* a variant of lines 332-341 without the closing ledger update
FinishStepWithoutUpdate(G, step) ==
    IF G.exc # "none" THEN G
    ELSE IF RptFlags.flowStats /\ Nobjects.LINK > 0
    THEN Call(G, "stats_updateFlowStats") ELSE G

\* lines 332-341
FinishStep(G, step) ==
    IF G.exc # "none" THEN G
    ELSE LET G1 == massbal_updateRoutingTotals(G, step)
         IN IF RptFlags.flowStats /\ Nobjects.LINK > 0
            THEN Call(G1, "stats_updateFlowStats") ELSE G1

\* a variant of line 330 that leaves the steady-state flag as it is
SkipStepNotSteady(G) ==
    G

\* line 330: the step between events
SkipStep(G) ==
    [G EXCEPT !.inSteadyState = TRUE]

\* lines 198-341, for ErrorCode = 0
ExecuteStep(G0, F, step) ==
    LET currentDate == getDateTime(G0.NewRoutingTime)
        G1 == SetTargets(massbal_updateRoutingTotals(
                             [G0 EXCEPT !.massbal.halfSteps = <<>>], step),
                         F.pumpTarget, "link_setTargetSetting", 0)
        G2 == ApplySettings(EvaluateRules(G1, F), currentDate, 0)
        G3 == RollLatFlows(
                  Call(SetOldQualState(InitStepTotals(AdvanceClock(G2, step), F)),
                       "infil_setInfilFactor"))
        G4 == EventBookkeeping(G3, currentDate)
        G5 == IF G4.exc # "none" THEN G4
              ELSE IF G4.BetweenEvents = FALSE THEN InEventStep(G4, F, currentDate, step)
              ELSE SkipStep(G4)
    IN FinishStep(G5, step)

-----------------------------------------------------------------------------
(* The entry points, as the simulation driver calls them: routing_open      *)
(* once, then routing_getRoutingStep and routing_execute in turn, each      *)
(* routing_execute with the step just returned, then routing_close.  The    *)
(* driver treats a step that is not positive as a fatal sizing failure and  *)
(* stops stepping.  A JavaScript exception ends the run.                    *)

MaxTime == 6
MaxAhead == 3

\* routing_open, lines 75-104: what it leaves in the shared variables and
\* the calls it makes.  treatOk and sortOk are the outcomes of treatmnt_open
\* and toposort_sortLinks; a failing collaborator sets the error latch.
\* a variant of line 100 that leaves the event list as it was read
SortIfEventsNever(ev) ==
    ev

\* line 100
SortIfEvents(ev) ==
    IF NumEventsOf(ev) > 0 THEN sortEvents(ev) ELSE ev

\* a variant of line 102 that starts every run between events
InitialBetweenEventsAlways(ev) ==
    TRUE

\* line 102
InitialBetweenEvents(ev) ==
    NumEventsOf(ev) > 0

routing_open(treatOk, sortOk) ==
    LET base == [ErrorCode |-> ErrorCode, SortedLinks |-> SortedLinks,
                 NextEvent |-> NextEvent, BetweenEvents |-> BetweenEvents,
                 NewRuleTime |-> NewRuleTime, swmm_Event |-> swmm_Event,
                 calls |-> <<"treatmnt_open">>, done |-> FALSE]
        sorted == IF Nobjects.LINK > 0
                  THEN [base EXCEPT !.SortedLinks = "array",
                                    !.calls = Append(@, "toposort_sortLinks"),
                                    !.ErrorCode = IF sortOk THEN @ ELSE ERR_MEMORY]
                  ELSE [base EXCEPT !.SortedLinks = "null"]
        inited == [sorted EXCEPT
                     !.calls = @ \o <<"iface_openRoutingFiles", "flowrout_init">>
                               \o (IF Env.hotstart = NO_FILE
                                   THEN <<"qualrout_init">> ELSE <<>>),
                     !.swmm_Event = SortIfEvents(swmm_Event),
                     !.NextEvent = 0,
                     !.BetweenEvents = InitialBetweenEvents(swmm_Event),
                     !.NewRuleTime = 0,
                     !.done = TRUE]
    IN IF ~treatOk THEN [base EXCEPT !.ErrorCode = ERR_MEMORY]
       ELSE IF Nobjects.LINK > 0 /\ sorted.ErrorCode # 0 THEN sorted
       ELSE inited

Open ==
    /\ pc = "start"
    /\ exception = "none"
    /\ \E treatOk \in BOOLEAN, sortOk \in BOOLEAN :
          LET r == routing_open(treatOk, sortOk)
          IN /\ ErrorCode' = r.ErrorCode
             /\ SortedLinks' = r.SortedLinks
             /\ NextEvent' = r.NextEvent
             /\ BetweenEvents' = r.BetweenEvents
             /\ NewRuleTime' = r.NewRuleTime
             /\ swmm_Event' = r.swmm_Event
             /\ calls' = r.calls
             /\ pc' = IF r.ErrorCode # 0 THEN "failed" ELSE "opened"
    /\ lastOp' = "routing_open"
    /\ UNCHANGED <<exception, OldRoutingTime, NewRoutingTime, eventsIn, netVars,
                   hasChanged, cfgVars, routingStep, inSteadyState, ledgerVars>>

\* the steps the flow solver can ask for: in (0, fixedStep]
SolverSteps(fixedStep) ==
    {s \in Env.solverSteps : 0 < s /\ s <= fixedStep}

\* the runoff clock is at the routing clock or ahead of it
AheadTimes ==
    {NewRoutingTime + 1000 * k : k \in 0..MaxAhead}

\* the next reporting time is one second ahead or far ahead
ReportTimes ==
    {NewRoutingTime + 1000, NewRoutingTime + 1000 * MaxAhead}

GetRoutingStep ==
    /\ pc = "opened"
    /\ exception = "none"
    /\ NewRoutingTime < 1000 * MaxTime
    /\ \E NewRunoffTime \in AheadTimes, ReportTime \in ReportTimes,
          solverStep \in SolverSteps(RouteStep) :
          \E r \in {routing_getRoutingStep(RouteStep, NewRunoffTime, ReportTime,
                                           solverStep)} :
             /\ routingStep' = r.ret
             /\ calls' = r.calls
             /\ exception' = r.exc
             /\ pc' = IF r.exc # "none" THEN "thrown"
                      ELSE IF r.ret > 0 THEN "sized" ELSE "sizing_failed"
    /\ lastOp' = "routing_getRoutingStep"
    /\ UNCHANGED <<schedVars, eventsIn, netVars, hasChanged, cfgVars,
                   inSteadyState, ledgerVars>>

\* a variant of line 197 that never stops
LatchNeverStops ==
    FALSE

\* line 197
LatchStopsExecute ==
    ErrorCode # 0

Execute ==
    /\ pc = "sized"
    /\ exception = "none"
    /\ lastOp' = "routing_execute"
    /\ IF LatchStopsExecute
       THEN /\ pc' = "opened"
            /\ calls' = <<>>
            /\ UNCHANGED <<exception, schedVars, netVars, hasChanged,
                           inSteadyState, ledgerVars>>
       ELSE \E F \in StepForcings :
               LET G0 == [Node |-> Node, Link |-> Link, Storage |-> Storage,
                          Outfall |-> Outfall, massbal |-> massbal, agg |-> agg,
                          calls |-> <<>>, exc |-> "none",
                          NextEvent |-> NextEvent, BetweenEvents |-> BetweenEvents,
                          NewRuleTime |-> NewRuleTime,
                          OldRoutingTime |-> OldRoutingTime,
                          NewRoutingTime |-> NewRoutingTime,
                          actionCount |-> 0, inSteadyState |-> FALSE,
                          hasChanged |-> "none"]
               IN \E G \in {ExecuteStep(G0, F, routingStep)} :
                  /\ Node' = G.Node
                  /\ Link' = G.Link
                  /\ Storage' = G.Storage
                  /\ Outfall' = G.Outfall
                  /\ massbal' = G.massbal
                  /\ agg' = G.agg
                  /\ calls' = G.calls
                  /\ exception' = G.exc
                  /\ NextEvent' = G.NextEvent
                  /\ BetweenEvents' = G.BetweenEvents
                  /\ NewRuleTime' = G.NewRuleTime
                  /\ OldRoutingTime' = G.OldRoutingTime
                  /\ NewRoutingTime' = G.NewRoutingTime
                  /\ inSteadyState' = G.inSteadyState
                  /\ hasChanged' = G.hasChanged
                  /\ pc' = IF G.exc # "none" THEN "thrown" ELSE "opened"
                  /\ UNCHANGED <<ErrorCode, SortedLinks, swmm_Event, Conduit>>
    /\ UNCHANGED <<eventsIn, cfgVars, routingStep>>

\* a variant of routing_close that does nothing
CloseCallsNone ==
    <<>>

\* lines 117-122
CloseCalls ==
    <<"iface_closeRoutingFiles", "flowrout_close", "treatmnt_close", "FREE">>

Close ==
    /\ pc \in {"opened", "failed", "sizing_failed"}
    /\ exception = "none"
    /\ pc' = "closed"
    /\ lastOp' = "routing_close"
    /\ calls' = CloseCalls
    /\ UNCHANGED <<exception, schedVars, eventsIn, netVars, hasChanged, cfgVars,
                   routingStep, inSteadyState, ledgerVars>>

\* Some other module of the engine reports a fatal error: before
\* routing_open, while the project is read, or in the runoff computed
\* between routing_getRoutingStep and routing_execute.
ErrorLatched ==
    /\ pc \in {"start", "sized"}
    /\ exception = "none"
    /\ ErrorCode = 0
    /\ ErrorCode' = ERR_MEMORY
    /\ UNCHANGED <<pc, lastOp, exception, SortedLinks, NextEvent, BetweenEvents,
                   NewRuleTime, OldRoutingTime, NewRoutingTime, swmm_Event,
                   eventsIn, netVars, hasChanged, cfgVars, routingStep,
                   inSteadyState, calls, ledgerVars>>

Next ==
    \/ Open
    \/ GetRoutingStep
    \/ Execute
    \/ Close
    \/ ErrorLatched

-----------------------------------------------------------------------------
(* The projects the scheduler is run on.  A project is the state the input  *)
(* reader and project initialisation leave: all flows zero, every link open *)
(* (setting 1), the clocks at zero.                                         *)

FlowRecord(vals) ==
    [type |-> FLOW_INFLOW, param |-> -1, vals |-> vals]

Ev(start, end) ==
    [start |-> StartDateTime + start, end |-> StartDateTime + end]

\* one junction without links that carries a constant external flow inflow
SingleNode(q) ==
    [Node |-> <<[NodeRec(JUNCTION, 0, 0, 0, 0, 0) EXCEPT
                    !.extInflow = <<FlowRecord({q})>>]>>,
     Link |-> <<>>, Conduit |-> <<>>, Outfall |-> <<>>, Storage |-> <<>>]

\* a junction with a varying external flow inflow, drained by one conduit to
\* an outfall
JunctionToOutfall ==
    [Node |-> <<[NodeRec(JUNCTION, 1, 0, 0, 0, 0) EXCEPT
                    !.extInflow = <<FlowRecord({0, 20})>>],
                NodeRec(OUTFALL, 1, 0, 0, 0, 0)>>,
     Link |-> <<[type |-> CONDUIT, subIndex |-> 0, setting |-> 1,
                 targetSetting |-> 1, timeLastSet |-> 0]>>,
     Conduit |-> <<[barrels |-> 1, evapLossRate |-> 0, seepLossRate |-> 0]>>,
     Outfall |-> <<[routeTo |-> -1, vRouted |-> 0, wRouted |-> <<>>]>>,
     Storage |-> <<>>]

Networks == {SingleNode(0), SingleNode(20), JunctionToOutfall}

EventChoices ==
    {<<>>, <<Ev(0, 1)>>, <<Ev(6, 8)>>, <<Ev(0, 3), Ev(3, 5)>>, <<Ev(3, 6), Ev(1, 4)>>}

\* the providers of a run without runoff, groundwater, RDII or interface
\* inflows: the links bring a flow of 20 to each connected node, the
\* outfall discharges 20, a control rule may close or reopen the conduit
PlainForcing ==
    [NoForcing EXCEPT !.solver = {<<20, 0>>},
                      !.sysOutflow = {20},
                      !.ruleTargets = {-1, 0, 1},
                      !.flowErrors = {0, 6},
                      !.solverSteps = {1, 2}]

ProjectLoaded(net) ==
    /\ pc = "start"
    /\ lastOp = "none"
    /\ exception = "none"
    /\ SchedInitial
    /\ eventsIn = swmm_Event
    /\ Node = net.Node
    /\ Link = net.Link
    /\ Conduit = net.Conduit
    /\ Outfall = net.Outfall
    /\ Storage = net.Storage
    /\ hasChanged = "none"
    /\ routingStep = Undefined
    /\ inSteadyState = Undefined
    /\ calls = <<>>
    /\ RptFlags = [flowStats |-> TRUE]
    /\ massbal = ZeroLedger(Len(Pollut))
    /\ agg = ZeroAgg(Len(Pollut))

Init ==
    /\ swmm_Event \in EventChoices
    /\ RuleStep \in {0, 3}
    /\ RouteStep = 2
    /\ SkipSteadyState \in BOOLEAN
    /\ Pollut = <<>>
    /\ Subcatch = <<>>
    /\ IgnoreQuality = FALSE
    /\ Finflows = [mode |-> NO_FILE]
    /\ Env = PlainForcing
    /\ \E net \in Networks : ProjectLoaded(net)

Spec == Init /\ [][Next]_vars

-----------------------------------------------------------------------------
(* Properties of routing_getRoutingStep *)

Sized ==
    /\ pc \in {"sized", "sizing_failed"}
    /\ lastOp = "routing_getRoutingStep"
    /\ exception = "none"

\* an event is pending and the clock is outside every event
AwaitingEvent ==
    /\ Len(swmm_Event) > 0
    /\ BetweenEvents = TRUE
    /\ NextEvent < Len(swmm_Event)

PendingStart ==
    swmm_Event[NextEvent + 1].start

\* C1: with at least one link, fixedStep > 0 and the solver's step in
\* (0, fixedStep], every step routing_getRoutingStep returns in a run that
\* alternates it with routing_execute is > 0, also when routing events and a
\* rule interval are both configured.
C1_StepPositive ==
    (Sized /\ Nobjects.LINK > 0) => routingStep > 0

\* the run that refutes it: events and a rule interval, no error latched
C1_NegativeStep ==
    /\ Sized /\ Nobjects.LINK > 0
    /\ ErrorCode = 0
    /\ Len(swmm_Event) > 0 /\ RuleStep > 0
    /\ routingStep < 0

\* C2 as stated: between events, the step returned never advances the clock
\* past the start of the pending event.
C2_NeverPastEventStart ==
    (Sized /\ AwaitingEvent)
        => getDateTime(NewRoutingTime + 1000 * routingStep) <= PendingStart

\* C2, amended: between events and with links, the step returned either
\* leaves the clock strictly before the start of the pending event, or it is
\* the normally sized step (at most fixedStep), returned only when
\* NewRoutingTime + 1000*fixedStep reaches or passes that start; without
\* links the step is fixedStep whatever the events are.
C2_BeforeStartOrNormalStep ==
    (Sized /\ AwaitingEvent)
        => IF Nobjects.LINK > 0
           THEN \/ getDateTime(NewRoutingTime + 1000 * routingStep) < PendingStart
                \/ /\ getDateTime(NewRoutingTime + 1000 * RouteStep) >= PendingStart
                   /\ routingStep <= RouteStep
           ELSE routingStep = RouteStep

\* a step longer than fixedStep, found between events, that stops before
\* the pending event
C2_Witness ==
    /\ Sized /\ AwaitingEvent
    /\ Nobjects.LINK > 0
    /\ routingStep > RouteStep
    /\ getDateTime(NewRoutingTime + 1000 * routingStep) < PendingStart

-----------------------------------------------------------------------------
(* Properties of the error latch *)

\* C3: if ErrorCode is set when routing_execute is called, it returns
\* without advancing OldRoutingTime, NewRoutingTime or NewRuleTime, without
\* changing any node, link or event-cursor state, and without calling the
\* ledger, the solvers or the statistics collector.
C3_LatchedExecuteIsNoOp ==
    [][(pc = "sized" /\ pc' # "sized" /\ ErrorCode # 0)
          => /\ UNCHANGED <<OldRoutingTime, NewRoutingTime, NewRuleTime>>
             /\ UNCHANGED <<Node, Link, Storage, Outfall>>
             /\ UNCHANGED <<NextEvent, BetweenEvents>>
             /\ UNCHANGED ledgerVars
             /\ calls' = <<>>]_vars

\* routing_execute has returned at once in the middle of a run
C3_Witness ==
    /\ pc = "opened"
    /\ lastOp = "routing_execute"
    /\ ErrorCode # 0
    /\ calls = <<>>
    /\ NewRoutingTime > 0

-----------------------------------------------------------------------------
(* A project with every kind of inflow: one pollutant; a junction with      *)
(* external and dry-weather inflows of flow and of the pollutant, receiving *)
(* the runoff and the groundwater of one subcatchment with LID units and an *)
(* interface file inflow; an outfall with an external inflow, which the     *)
(* solver may leave with a negative net inflow.                             *)

OnePollutant ==
    <<[dwfConcen |-> 5, gwConcen |-> 1, rdiiConcen |-> 0]>>

InflowNetwork ==
    [Node |-> <<[NodeRec(JUNCTION, 1, 0, 0, 0, 0) EXCEPT
                    !.extInflow = <<[type |-> CONCEN_INFLOW, param |-> 0, vals |-> {1}],
                                    FlowRecord({5, 20})>>,
                    !.dwfInflow = <<[param |-> -1], [param |-> 0]>>,
                    !.newQual = <<0>>],
                [NodeRec(OUTFALL, 1, 0, 0, 0, 0) EXCEPT
                    !.extInflow = <<FlowRecord({20}),
                                    [type |-> CONCEN_INFLOW, param |-> 0, vals |-> {1}]>>,
                    !.newQual = <<0>>]>>,
     Link |-> JunctionToOutfall.Link,
     Conduit |-> JunctionToOutfall.Conduit,
     Outfall |-> <<[routeTo |-> 0, vRouted |-> 0, wRouted |-> <<0>>]>>,
     Storage |-> <<>>]

\* the outfall's direct external flow inflow is always zero, or always 20;
\* the junction's dry-weather inflow has a record for the pollutant, or only
\* the flow record
InflowNetworks ==
    {[InflowNetwork EXCEPT !.Node[2].extInflow[1] = FlowRecord({q}),
                           !.Node[1].dwfInflow = d] :
        q \in {0, 20}, d \in {<<[param |-> -1], [param |-> 0]>>, <<[param |-> -1]>>}}

InflowForcing ==
    [NoForcing EXCEPT !.dwf = {20},
                      !.runoff = {20},
                      !.washoff = {3},
                      !.gw = {<<10, 30>>},
                      !.rdiiN = {0, 1},
                      !.iface = {<<>>, <<[node |-> 0, flow |-> 20, qual |-> <<1>>]>>},
                      !.solver = {<<0, 0>>, <<0, 40>>},
                      !.sysOutflow = {20},
                      !.conc = {1},
                      !.solverSteps = {2}]

InitInflow ==
    /\ swmm_Event = <<>>
    /\ RuleStep = 0
    /\ RouteStep = 2
    /\ SkipSteadyState = FALSE
    /\ Pollut = OnePollutant
    /\ Subcatch = <<[outNode |-> 0, groundwater |-> <<[node |-> 0]>>,
                     area |-> 1, lidArea |-> 1]>>
    /\ IgnoreQuality = FALSE
    /\ Finflows = [mode |-> USE_FILE]
    /\ Env \in {InflowForcing, [InflowForcing EXCEPT !.inObj = "global"]}
    /\ \E net \in InflowNetworks : ProjectLoaded(net)

SpecInflow == InitInflow /\ [][Next]_vars

-----------------------------------------------------------------------------
(* Properties of routing_execute *)

Called(name) ==
    \E i \in 1..Len(calls) : calls[i] = name

\* routing_execute has run k steps of a project with a single node that
\* carries a constant external flow inflow: no links, so no control
\* actions, no pollutants, no events, SkipSteadyState on
SingleNodeSteps(k) ==
    /\ pc = "opened" /\ lastOp = "routing_execute"
    /\ exception = "none" /\ ErrorCode = 0
    /\ Len(Node) = 1 /\ Len(Link) = 0 /\ Len(Pollut) = 0
    /\ swmm_Event = <<>>
    /\ SkipSteadyState
    /\ NewRoutingTime = 1000 * RouteStep * k

FlowErrorWithinTol ==
    Abs(massbal.flowError) <= SysFlowTol

ConstantInflow ==
    CHOOSE q \in Node[1].extInflow[1].vals : TRUE

C10_AggregationBalanced ==
    \A m \in Mechanisms :
        /\ agg[m].ledFlow = agg[m].nodeFlow
        /\ agg[m].ledQual = agg[m].nodeQual

\* a step in which the external, dry-weather, wet-weather, groundwater and
\* interface inflows all added flow and mass, the outfall having had a
\* negative net inflow in the step before
C10_Witness ==
    /\ pc = "opened" /\ lastOp = "routing_execute" /\ exception = "none"
    /\ Len(Node) = 2
    /\ Node[2].type = OUTFALL /\ Node[2].oldNetInflow < 0
    /\ agg["External"].nodeFlow = 40
    /\ agg["External"].nodeQual[1] = 60
    /\ \A m \in {"External", "DryWeather", "WetWeather", "Groundwater", "Iface"} :
          agg[m].nodeFlow > 0 /\ agg[m].nodeQual[1] > 0

-----------------------------------------------------------------------------
(* Properties of the inflow aggregator and the reconciler *)

\* routing_execute runs a step (the error latch is not set)
ExecuteRuns ==
    pc = "sized" /\ pc' # "sized" /\ ErrorCode = 0

\* the second node is an outfall whose direct external flow inflow is zero
OutfallWithZeroInflow ==
    /\ Len(Node) = 2
    /\ Node[2].type = OUTFALL
    /\ Len(Node[2].extInflow) > 0
    /\ Node[2].extInflow[1].vals = {0}

\* C11 as stated: for an outfall whose previous-step net inflow is negative
\* and whose direct external flow inflow is zero, addExternalInflows adds the
\* reverse-flow magnitude to the node's newLatFlow.
C11_ReverseFlowAddedToLatFlow ==
    [][(ExecuteRuns /\ OutfallWithZeroInflow /\ Node[2].oldNetInflow < 0)
          => Node'[2].newLatFlow = -Node[2].oldNetInflow]_vars

\* C11, amended: for such an outfall addExternalInflows adds only the direct
\* inflow, zero, to newLatFlow; the reverse-flow magnitude enters only the
\* flow that scales the node's concentration-type inflow records (here one
\* record of concentration 1, as on the junction, so that the external mass
\* exceeds the external flow by the reverse flow).
C11_ReverseFlowOnlyScalesConcentration ==
    [][(ExecuteRuns /\ OutfallWithZeroInflow /\ Node[2].oldNetInflow < 0)
          => /\ Node'[2].newLatFlow = 0
             /\ agg'["External"].nodeQual[1] - agg'["External"].nodeFlow
                   = -Node[2].oldNetInflow]_vars

\* a step has aggregated the inflows of an outfall with zero direct inflow
\* and a reverse flow of 40
C11_Witness ==
    /\ pc = "opened" /\ lastOp = "routing_execute" /\ exception = "none"
    /\ OutfallWithZeroInflow
    /\ Node[2].newLatFlow = 0
    /\ agg["External"].nodeQual[1] - agg["External"].nodeFlow = 40

\* routing_execute has run addDryWeatherInflows in its last step
DryWeatherRan ==
    lastOp = "routing_execute" /\ Called("addDryWeatherInflows")

\* the first node's dry-weather inflow is a flow record alone, and the
\* pollutant has a default dry-weather concentration
DefaultConcentrationOnly ==
    /\ Len(Node) > 0 /\ Len(Pollut) > 0
    /\ Node[1].dwfInflow = <<[param |-> -1]>>
    /\ Pollut[1].dwfConcen > 0

\* the dry-weather flow q > 0 was added with the default load q * c, in the
\* node and in the ledger
DefaultLoadAdded ==
    /\ agg["DryWeather"].nodeFlow \in Env.dwf
    /\ agg["DryWeather"].nodeFlow > 0
    /\ agg["DryWeather"].nodeQual[1] = agg["DryWeather"].nodeFlow * Pollut[1].dwfConcen
    /\ agg["DryWeather"].ledQual[1] = agg["DryWeather"].nodeFlow * Pollut[1].dwfConcen

\* C12: for a node with dry-weather flow q > 0 and a pollutant that has a
\* default dry-weather concentration c > 0 and no explicit record,
\* addDryWeatherInflows adds exactly q * c to Node.newQual[p] and reports
\* exactly q * c to the ledger.
C12_DefaultLoad ==
    (DryWeatherRan /\ DefaultConcentrationOnly) => DefaultLoadAdded

\* the step in which the claim fails: the flow record is found and the call
\* inflow_getDwfInflow(inObj, ...) throws before any flow or load is added
C12_ReferenceError ==
    /\ DryWeatherRan /\ DefaultConcentrationOnly
    /\ pc = "thrown" /\ exception = "ReferenceError"
    /\ agg["DryWeather"].nodeFlow = 0
    /\ agg["DryWeather"].nodeQual[1] = 0

\* what holds of C12: if some other script defines a global inObj, the flow
\* q is what inflow_getDwfInflow returns for that object and the load added
\* and reported is q * c
C12_DefaultLoadIfInObjDefined ==
    (DryWeatherRan /\ DefaultConcentrationOnly /\ Env.inObj = "global")
        => DefaultLoadAdded

\* with c = 5 and q = 20 the load is 100
C12_LoadOfHundred ==
    /\ DryWeatherRan /\ DefaultConcentrationOnly
    /\ exception = "none"
    /\ agg["DryWeather"].nodeFlow = 20
    /\ agg["DryWeather"].ledQual[1] = 100

-----------------------------------------------------------------------------
(* A project with storage: two storage units with a junction between them,  *)
(* no links.  In a step each unit loses nothing, or 12 to evaporation and 8 *)
(* to exfiltration (volumes); the routing step is 2 or 4 s.                 *)

StorageNetwork ==
    [Node |-> <<NodeRec(STORAGE, 0, 0, 0, 0, 0),
                NodeRec(JUNCTION, 0, 0, 0, 0, 0),
                [NodeRec(STORAGE, 0, 0, 0, 0, 0) EXCEPT !.subIndex = 1]>>,
     Link |-> <<>>, Conduit |-> <<>>, Outfall |-> <<>>,
     Storage |-> <<[evapLoss |-> 0, exfilLoss |-> 0], [evapLoss |-> 0, exfilLoss |-> 0]>>]

StorageForcing ==
    [NoForcing EXCEPT !.losses = {<<0, 0>>, <<12, 8>>}]

InitStorage ==
    /\ swmm_Event \in {<<>>, <<Ev(2, 9)>>}
    /\ RuleStep = 0
    /\ RouteStep \in {2, 4}
    /\ SkipSteadyState \in BOOLEAN
    /\ Pollut = <<>>
    /\ Subcatch = <<>>
    /\ IgnoreQuality = FALSE
    /\ Finflows = [mode |-> NO_FILE]
    /\ Env = StorageForcing
    /\ ProjectLoaded(StorageNetwork)

SpecStorage == InitStorage /\ [][Next]_vars

CallCount(name) ==
    Cardinality({i \in 1..Len(calls) : calls[i] = name})

\* the length of the step routing_execute has just run (sec)
LastStep ==
    (NewRoutingTime - OldRoutingTime) \div 1000

\* C13: removeStorageLosses reports to the ledger, in one
\* massbal_addNodeLosses call per step, the sum of the evapLoss volumes of
\* all storage nodes divided by the step and the sum of their exfilLoss
\* volumes divided by the step; non-storage nodes contribute nothing.
C13_StorageLossRates ==
    (lastOp = "routing_execute" /\ Called("removeStorageLosses")
       /\ Node = StorageNetwork.Node)
        => /\ CallCount("removeStorageLosses") = 1
           /\ CallCount("massbal_addNodeLosses") = 1
           /\ massbal.nodeLosses[1] * LastStep
                 = Storage[1].evapLoss + Storage[2].evapLoss
           /\ massbal.nodeLosses[2] * LastStep
                 = Storage[1].exfilLoss + Storage[2].exfilLoss

\* a step of 4 s in which the first storage unit lost 12 and 8 and the
\* second nothing: the rates reported are 3 and 2
C13_Witness ==
    /\ lastOp = "routing_execute" /\ Called("removeStorageLosses")
    /\ Node = StorageNetwork.Node
    /\ LastStep = 4
    /\ Storage[1] = [evapLoss |-> 12, exfilLoss |-> 8]
    /\ Storage[2] = [evapLoss |-> 0, exfilLoss |-> 0]
    /\ massbal.nodeLosses = <<3, 2>>

-----------------------------------------------------------------------------
(* Properties of the event bookkeeping *)

\* routing_execute has run a step to its end
StepDone ==
    /\ pc = "opened" /\ lastOp = "routing_execute"
    /\ exception = "none" /\ calls # <<>>

\* the date at which the step just run started
StepStartDate ==
    getDateTime(OldRoutingTime)

InsideSomeEvent(d) ==
    \E i \in 1..Len(swmm_Event) : swmm_Event[i].start <= d /\ d < swmm_Event[i].end

\* C14: for every routing_execute step whose start-of-step date lies inside
\* [start, end) of a configured event, BetweenEvents is false after the event
\* bookkeeping, so inflows are aggregated and the step is routed rather than
\* skipped, also in the first steps of an event adjacent to the one before.
C14_InEventStepsRouted ==
    (StepDone /\ InsideSomeEvent(StepStartDate))
        => /\ BetweenEvents = FALSE
           /\ Called("addExternalInflows")
           /\ Called("removeOutflows")

\* the step in which the claim fails: it starts one second into the second
\* of two adjacent events and is skipped as between events
C14_SkippedInsideEvent ==
    /\ StepDone
    /\ swmm_Event = <<Ev(0, 3), Ev(3, 5)>>
    /\ StepStartDate = StartDateTime + 4
    /\ NextEvent = 1
    /\ BetweenEvents = TRUE
    /\ ~Called("addExternalInflows")
    /\ inSteadyState = TRUE

\* routing_open has completed without error and the run has not been closed
Running ==
    pc \in {"opened", "sized", "sizing_failed", "thrown"}

\* C15: when no routing event is configured, BetweenEvents is false after
\* routing_open and stays false after any sequence of routing_getRoutingStep
\* and routing_execute calls, so no step is ever skipped as between events.
C15_NeverBetweenEventsWithoutEvents ==
    (Running /\ Len(swmm_Event) = 0)
        => /\ BetweenEvents = FALSE
           /\ StepDone => Called("addExternalInflows") /\ Called("removeOutflows")

\* the third step of a run without events has been routed
C15_Witness ==
    /\ StepDone
    /\ Len(swmm_Event) = 0
    /\ Nobjects.LINK > 0
    /\ NewRoutingTime >= 3000
    /\ BetweenEvents = FALSE
    /\ Called("flowrout_execute")

-----------------------------------------------------------------------------
(* Properties of the ledger protocol of routing_execute *)

CallsAt(name) ==
    {i \in 1..Len(calls) : calls[i] = name}

\* C16: every error-free routing_execute calls
\* massbal_updateRoutingTotals(step / 2) exactly twice; the first call comes
\* before anything else the step does, the second after all routing and
\* reconciliation (only the statistics update follows it); between them
\* massbal_getStepFlowError is sampled just before
\* massbal_initTimeStepTotals, each exactly once.
C16_LedgerProtocol ==
    StepDone =>
        /\ Cardinality(CallsAt("massbal_updateRoutingTotals")) = 2
        /\ calls[1] = "massbal_updateRoutingTotals"
        /\ massbal.halfSteps = <<500 * LastStep, 500 * LastStep>>
        /\ Cardinality(CallsAt("massbal_getStepFlowError")) = 1
        /\ Cardinality(CallsAt("massbal_initTimeStepTotals")) = 1
        /\ \A e \in CallsAt("massbal_getStepFlowError"),
              r \in CallsAt("massbal_initTimeStepTotals"),
              k \in CallsAt("massbal_updateRoutingTotals") \ {1} :
                /\ e < r /\ r < k
                /\ \A i \in 2..(e - 1) :
                      calls[i] \in {"link_setTargetSetting", "controls_evaluate",
                                    "link_setSetting"}
                /\ \A i \in (k + 1)..Len(calls) : calls[i] = "stats_updateFlowStats"

\* a routed step of 2 s in which a control rule changed the conduit's
\* setting: both ledger updates were made for 1000 msec
C16_Witness ==
    /\ StepDone
    /\ Called("link_setSetting")
    /\ Called("flowrout_execute")
    /\ Called("removeOutflows")
    /\ massbal.halfSteps = <<1000, 1000>>
    /\ calls[Len(calls)] = "stats_updateFlowStats"

\* the calls a step between events may make: the ledger protocol, the
\* target settings, rule evaluation and setting changes before the
\* bookkeeping, the old quality state, and the statistics update
SkippedStepCalls ==
    {"massbal_updateRoutingTotals", "link_setTargetSetting", "controls_evaluate",
     "link_setSetting", "massbal_getStepFlowError", "massbal_initTimeStepTotals",
     "node_setOldQualState", "link_setOldQualState", "infil_setInfilFactor",
     "stats_updateFlowStats"}

\* C17: in a routing_execute step that is between events no inflow
\* mechanism runs, storage losses are not computed, neither solver is
\* invoked, the reconciler does not run, every node's newLatFlow is 0 at the
\* end of the step and the step is flagged steady state; the clock still
\* advances and both half-step ledger updates still occur.
C17_SkippedStep ==
    (StepDone /\ Len(swmm_Event) > 0 /\ BetweenEvents = TRUE)
        => /\ \A i \in 1..Len(calls) : calls[i] \in SkippedStepCalls
           /\ \A j \in 1..Len(Node) : Node[j].newLatFlow = 0
           /\ \A m \in Mechanisms : agg[m].nodeFlow = 0 /\ agg[m].ledFlow = 0
           /\ massbal.nodeLosses = <<>> /\ massbal.linkLosses = <<>>
           /\ massbal.outflow = 0
           /\ inSteadyState = TRUE
           /\ NewRoutingTime = OldRoutingTime + 1000 * routingStep
           /\ Cardinality(CallsAt("massbal_updateRoutingTotals")) = 2

\* a step skipped after an event in which the junction had an inflow of 20
C17_Witness ==
    /\ StepDone /\ Len(swmm_Event) > 0 /\ BetweenEvents = TRUE
    /\ NextEvent = 1
    /\ Len(Node) = 2
    /\ Node[1].oldLatFlow = 20 /\ Node[1].newLatFlow = 0
    /\ inSteadyState = TRUE
    /\ NewRoutingTime > OldRoutingTime

-----------------------------------------------------------------------------
(* More properties of routing_getRoutingStep and routing_open *)

\* routing_getRoutingStep is called and returns or throws
GetRoutingStepRuns ==
    pc = "opened" /\ lastOp' = "routing_getRoutingStep"

\* C18: when the network has no links, routing_getRoutingStep returns
\* fixedStep unchanged in every state (events configured or not, rule
\* interval configured or not), calls no solver and modifies no shared
\* variable.
C18_NoLinksFixedStep ==
    [][(GetRoutingStepRuns /\ Len(Link) = 0)
          => /\ exception' = "none"
             /\ routingStep' = RouteStep
             /\ calls' = <<>>
             /\ UNCHANGED <<schedVars, netVars, ledgerVars>>]_vars

\* fixedStep has been returned for a network without links, between events
\* and across the next rule instant
C18_Witness ==
    /\ Sized
    /\ Len(Link) = 0
    /\ AwaitingEvent
    /\ RuleStep > 0
    /\ NewRuleTime + 1000 * RuleStep < NewRoutingTime + 1000 * RouteStep
    /\ routingStep = RouteStep
    /\ calls = <<>>

NextRuleInstant ==
    NewRuleTime + 1000 * RuleStep

\* C19: when RuleStep > 0 and the next rule instant is not later than
\* NewRoutingTime + 1000 * candidateStep, routing_getRoutingStep returns
\* exactly (nextRuleInstant - NewRoutingTime) / 1000, and after
\* routing_execute with that step NewRoutingTime equals that rule instant and
\* NewRuleTime has been advanced by one interval to it.  The step returned
\* is the candidate or the clipped one, so the first half says that the
\* step returned never carries the clock past the next rule instant.
C19_ClippedToRuleInstant ==
    [][RuleStep > 0
          => /\ (GetRoutingStepRuns /\ exception' = "none")
                   => NewRoutingTime + 1000 * routingStep' <= NextRuleInstant
             /\ (ExecuteRuns /\ exception' = "none"
                   /\ NewRoutingTime + 1000 * routingStep >= NextRuleInstant)
                   => /\ NewRoutingTime' = NextRuleInstant
                      /\ NewRuleTime' = NextRuleInstant]_vars

\* the step in which the claim fails: between events, with links, fixedStep
\* is returned although the next rule instant lies inside the step
C19_RuleInstantInsideStep ==
    /\ Sized /\ AwaitingEvent
    /\ Nobjects.LINK > 0
    /\ RuleStep > 0
    /\ NewRoutingTime < NextRuleInstant
    /\ NextRuleInstant < NewRoutingTime + 1000 * routingStep
    /\ routingStep = RouteStep
    /\ calls = <<>>

\* what holds of C19: when the network has links and the call is not
\* answered by the early return of line 155, the step returned is the
\* candidate clipped to the next rule instant, and an error-free
\* routing_execute with a clipped step leaves NewRoutingTime and
\* NewRuleTime at that instant
C19_ClippedUnlessEarlyReturn ==
    [][(RuleStep > 0 /\ Nobjects.LINK > 0)
          => /\ (GetRoutingStepRuns /\ exception' = "none"
                   /\ ~(AwaitingEvent /\ calls' = <<>> /\ routingStep' = RouteStep))
                   => NewRoutingTime + 1000 * routingStep' <= NextRuleInstant
             /\ (ExecuteRuns /\ exception' = "none"
                   /\ NewRoutingTime + 1000 * routingStep = NextRuleInstant)
                   => /\ NewRoutingTime' = NextRuleInstant
                      /\ NewRuleTime' = NextRuleInstant]_vars

\* C20: when routing_open completes without error, the scheduler state is
\* NextEvent = 0, BetweenEvents = (NumEvents > 0) and NewRuleTime = 0, and if
\* NumEvents > 0 the event list has been sorted and overlap-repaired before
\* any step is sized or executed.
C20_OpenedState ==
    [][(pc = "start" /\ pc' = "opened")
          => /\ NextEvent' = 0
             /\ BetweenEvents' = (Len(swmm_Event) > 0)
             /\ NewRuleTime' = 0
             /\ Len(swmm_Event') = Len(swmm_Event)
             /\ \A i \in 1..(Len(swmm_Event') - 1) :
                   /\ swmm_Event'[i].start <= swmm_Event'[i + 1].start
                   /\ swmm_Event'[i].end <= swmm_Event'[i + 1].start
             /\ \A i \in 1..Len(swmm_Event') :
                   \E j \in 1..Len(swmm_Event) :
                       /\ swmm_Event'[i].start = swmm_Event[j].start
                       /\ swmm_Event'[i].end <= swmm_Event[j].end
             /\ OldRoutingTime' = 0 /\ NewRoutingTime' = 0
             /\ routingStep' = Undefined]_vars

\* the run has been opened on two events read out of order that overlap:
\* [3, 6) and [1, 4) have become [1, 3) and [3, 6)
C20_Witness ==
    /\ pc = "opened" /\ lastOp = "routing_open"
    /\ eventsIn = <<Ev(3, 6), Ev(1, 4)>>
    /\ swmm_Event = <<Ev(1, 3), Ev(3, 6)>>
    /\ NextEvent = 0 /\ BetweenEvents = TRUE /\ NewRuleTime = 0

-----------------------------------------------------------------------------
(* Properties of the steady-state test, the rule clock and the event cursor *)

\* routing_execute has run a step to its end that was not between events
InEventStepDone ==
    StepDone /\ (Len(swmm_Event) > 0 => BetweenEvents = FALSE)

\* C21: in an in-event routing_execute step the steady-state flag is true
\* exactly when SkipSteadyState is enabled and it is not the first step, no
\* link setting was changed in the step, the sampled flow error is within
\* SysFlowTol and inflowHasChanged() is false; when the flag is false the
\* old hydraulic state is kept and node_initInflow run for every link and
\* node and the flow solver is invoked if links exist; when it is true none
\* of them run.
C21_SteadyStateFlag ==
    InEventStepDone =>
        /\ inSteadyState = ( /\ SkipSteadyState
                             /\ OldRoutingTime # 0
                             /\ ~Called("link_setSetting")
                             /\ Abs(massbal.flowError) <= SysFlowTol
                             /\ hasChanged = FALSE )
        /\ inSteadyState = FALSE
              => /\ CallCount("link_setOldHydState") = Len(Link)
                 /\ CallCount("node_setOldHydState") = Len(Node)
                 /\ CallCount("node_initInflow") = Len(Node)
                 /\ Called("flowrout_execute") = (Len(Link) > 0)
        /\ inSteadyState = TRUE
              => /\ ~Called("link_setOldHydState")
                 /\ ~Called("node_setOldHydState")
                 /\ ~Called("node_initInflow")
                 /\ ~Called("flowrout_execute")

\* a steady step of a network with a link, and no flow solver run
C21_Witness ==
    /\ InEventStepDone
    /\ SkipSteadyState
    /\ Len(Link) > 0
    /\ OldRoutingTime # 0
    /\ inSteadyState = TRUE
    /\ ~Called("flowrout_execute")

\* the step just run started on a rule instant k * RuleStep
StartedOnRuleInstant ==
    OldRoutingTime % (1000 * RuleStep) = 0

\* the step just run carried the clock over a rule instant
PassedRuleInstant ==
    \E k \in 0..(MaxTime + 1) :
        /\ OldRoutingTime < 1000 * RuleStep * k
        /\ 1000 * RuleStep * k < NewRoutingTime

RulesFiredOnSchedule ==
    /\ CallCount("controls_evaluate") = (IF StartedOnRuleInstant THEN 1 ELSE 0)
    /\ ~PassedRuleInstant

\* C22: with RuleStep > 0 and every routing_execute using the step returned
\* by routing_getRoutingStep, controls_evaluate is invoked exactly once for
\* each rule instant k * RuleStep the clock reaches, at the step that starts
\* on that instant, and at no other step, also between routing events: no
\* step carries the clock over a rule instant.
C22_RulesAtEveryInstant ==
    (StepDone /\ RuleStep > 0) => RulesFiredOnSchedule

\* the step in which the claim fails: with a link and between events, a
\* step of 2 s from 2 s to 4 s passes the rule instant at 3 s, which no step
\* starts on
C22_RuleInstantSkipped ==
    /\ StepDone
    /\ RuleStep = 3
    /\ Nobjects.LINK > 0
    /\ Len(swmm_Event) > 0 /\ BetweenEvents = TRUE
    /\ OldRoutingTime = 2000 /\ NewRoutingTime = 4000
    /\ NewRuleTime = 0
    /\ ~Called("controls_evaluate")

\* what holds of C22: in a run of a network with links and without routing
\* events the rules fire once at each rule instant and at no other step
C22_RulesWithoutEvents ==
    (StepDone /\ RuleStep > 0 /\ Nobjects.LINK > 0 /\ Len(swmm_Event) = 0)
        => RulesFiredOnSchedule

\* a routing_execute step has taken BetweenEvents from true to false
EventEntered ==
    Running /\ Len(swmm_Event) > 0 /\ BetweenEvents = TRUE /\ BetweenEvents' = FALSE

EventRead ==
    \/ ExecuteRuns
    \/ GetRoutingStepRuns /\ Len(Link) > 0 /\ BetweenEvents = TRUE

CursorMonotone ==
    NextEvent' >= NextEvent /\ NextEvent' <= NextEvent + 1

\* C24: in every state reachable from routing_open with NumEvents > 0,
\* NextEvent is non-decreasing, grows by at most one per step, and satisfies
\* 0 <= NextEvent < NumEvents whenever swmm_Event[NextEvent] is read, also
\* after the clock has passed the end of the last configured event.
C24_CursorInRange ==
    [][(Running /\ Len(swmm_Event) > 0)
          => /\ CursorMonotone
             /\ EventRead => (0 <= NextEvent /\ NextEvent < Len(swmm_Event))]_vars

\* the step in which the claim fails: the clock has passed the end of the
\* last event, NextEvent = NumEvents, and the read of swmm_Event[NextEvent]
\* has thrown
C24_ReadPastLastEvent ==
    /\ pc = "thrown" /\ exception = "TypeError"
    /\ Len(swmm_Event) > 0
    /\ NextEvent = Len(swmm_Event)
    /\ BetweenEvents = TRUE

\* what holds of C24: NextEvent never decreases, grows by at most one per
\* step and never exceeds NumEvents
C24_CursorBounded ==
    [][(Running /\ Len(swmm_Event) > 0)
          => /\ CursorMonotone
             /\ 0 <= NextEvent /\ NextEvent <= Len(swmm_Event)]_vars

-----------------------------------------------------------------------------
(* A project with controls: the junction and outfall joined by one conduit, *)
(* no events, rules evaluated at every step; a rule may leave the conduit's *)
(* target alone or set it to 0 (closed), 1 or 2.                            *)

ControlForcing ==
    [PlainForcing EXCEPT !.ruleTargets = {-1, 0, 1, 2},
                         !.flowErrors = {0},
                         !.solverSteps = {2}]

InitControls ==
    /\ swmm_Event = <<>>
    /\ RuleStep = 0
    /\ RouteStep = 2
    /\ SkipSteadyState \in BOOLEAN
    /\ Pollut = <<>>
    /\ Subcatch = <<>>
    /\ IgnoreQuality = FALSE
    /\ Finflows = [mode |-> NO_FILE]
    /\ Env = ControlForcing
    /\ ProjectLoaded(JunctionToOutfall)

SpecControls == InitControls /\ [][Next]_vars

\* the links whose setting differed from the target when lines 215-227 ran:
\* link_setSetting leaves the target as the setting
LinksChanged ==
    {j \in 1..Len(Link) : Link[j].setting # Link'[j].targetSetting}

\* C25: in routing_execute a link's timeLastSet is set to the start-of-step
\* date exactly when its setting differs from its targetSetting and one of
\* the two is zero; a change between two non-zero settings, or no change,
\* leaves timeLastSet unchanged; link_setSetting is applied to, and the action
\* count incremented for, exactly the links whose setting differed from the
\* target.
C25_TimeLastSet ==
    [][ExecuteRuns
          => /\ \A j \in 1..Len(Link) :
                   /\ Link'[j].setting = Link'[j].targetSetting
                   /\ Link'[j].timeLastSet =
                         IF j \in LinksChanged
                            /\ (Link[j].setting = 0 \/ Link'[j].targetSetting = 0)
                         THEN getDateTime(NewRoutingTime)
                         ELSE Link[j].timeLastSet
             /\ Cardinality({i \in 1..Len(calls') : calls'[i] = "link_setSetting"})
                   = Cardinality(LinksChanged)]_vars

\* the conduit has gone from setting 1 to setting 2 and its timeLastSet is
\* still the initial one
C25_Witness ==
    /\ StepDone
    /\ Len(Link) = 1
    /\ Called("link_setSetting")
    /\ Link[1].setting = 2
    /\ Link[1].timeLastSet = 0

-----------------------------------------------------------------------------
\* the sum of newLatFlow over the first n nodes of N
RECURSIVE LatFlowSum(_, _)
LatFlowSum(N, n) ==
    IF n = 0 THEN 0 ELSE N[n].newLatFlow + LatFlowSum(N, n - 1)

\* what the six inflow procedures added to newLatFlow in the step (lines
\* 378, 455, 530, 580, 644, 684)
RECURSIVE AddedLatFlow(_, _)
AddedLatFlow(A, ms) ==
    IF ms = {} THEN 0
    ELSE LET m == CHOOSE x \in ms : TRUE
         IN A[m].nodeFlow + AddedLatFlow(A, ms \ {m})

\* the position of the first call of the name in the sequence, 0 if none
FirstCall(cs, name) ==
    IF \E i \in 1..Len(cs) : cs[i] = name
    THEN CHOOSE i \in 1..Len(cs) : cs[i] = name /\ \A k \in 1..(i - 1) : cs[k] # name
    ELSE 0

\* C26: in every error-free routing_execute, including steps between events,
\* each node's oldLatFlow is set to the newLatFlow left by the previous step
\* and newLatFlow is zeroed exactly once, after which it is only added to by
\* the inflow mechanisms: at the end of the step the nodes' newLatFlow hold
\* what the mechanisms added in this step and nothing of the step before,
\* and no mechanism has reported a flow before the reset (which follows the
\* infil_setInfilFactor call).
C26_LatFlowRolledOnce ==
    [][(ExecuteRuns /\ exception' = "none")
          => /\ \A j \in 1..Len(Node) : Node'[j].oldLatFlow = Node[j].newLatFlow
             /\ LatFlowSum(Node', Len(Node)) = AddedLatFlow(agg', Mechanisms)
             /\ (BetweenEvents' = TRUE
                   => \A j \in 1..Len(Node) : Node'[j].newLatFlow = 0)
             /\ FirstCall(calls', "infil_setInfilFactor") > 0
             /\ \A i \in 1..Len(calls') :
                   calls'[i] = "massbal_addInflowFlow"
                      => i > FirstCall(calls', "infil_setInfilFactor")]_vars

\* two in-event steps in a row brought the same lateral inflow to node 0:
\* the second step's 20 replaced the first step's 20
C26_Witness ==
    /\ StepDone
    /\ OldRoutingTime > 0
    /\ BetweenEvents = FALSE
    /\ Node[1].oldLatFlow = 20
    /\ Node[1].newLatFlow = 20

-----------------------------------------------------------------------------
(* A project with one pollutant: the junction and outfall joined by one     *)
(* conduit, an external inflow of 0 or 20 at the junction, with or without  *)
(* an event, steady-state skipping and quality routing switched either way. *)

QualityNetwork ==
    [JunctionToOutfall EXCEPT !.Node[1].newQual = <<0>>,
                              !.Node[2].newQual = <<0>>,
                              !.Outfall[1].wRouted = <<0>>]

QualityForcing ==
    [NoForcing EXCEPT !.solver = {<<20, 0>>},
                      !.sysOutflow = {20},
                      !.conc = {1},
                      !.solverSteps = {2}]

InitQuality ==
    /\ swmm_Event \in {<<>>, <<Ev(2, 9)>>}
    /\ RuleStep = 0
    /\ RouteStep = 2
    /\ SkipSteadyState \in BOOLEAN
    /\ Pollut = OnePollutant
    /\ Subcatch = <<>>
    /\ IgnoreQuality \in BOOLEAN
    /\ Finflows = [mode |-> NO_FILE]
    /\ Env = QualityForcing
    /\ ProjectLoaded(QualityNetwork)

SpecQuality == InitQuality /\ [][Next]_vars

\* the calls of the flow-solver phase (lines 301-317) and the entries of the
\* loss/outflow reconciler (lines 326-328)
FlowPhaseCalls ==
    {"link_setOldHydState", "node_setOldHydState", "node_initInflow",
     "flowrout_execute"}

ReconcilerCalls ==
    {"removeStorageLosses", "removeConduitLosses", "removeOutflows"}

\* C27: whenever a routing_execute step is in an event, pollutants exist and
\* IgnoreQuality is false, the quality solver is invoked exactly once for
\* that step, also on steps judged steady state in which the flow solver is
\* skipped; it is invoked after the flow-solver phase and before the
\* loss/outflow reconciler.
C27_QualityRoutedOnce ==
    [][(/\ ExecuteRuns
        /\ exception' = "none"
        /\ BetweenEvents' = FALSE
        /\ Nobjects.POLLUT > 0
        /\ ~IgnoreQuality)
          => /\ Cardinality({i \in 1..Len(calls') : calls'[i] = "qualrout_execute"}) = 1
             /\ \A i \in 1..Len(calls') :
                   /\ calls'[i] \in FlowPhaseCalls
                         => i < FirstCall(calls', "qualrout_execute")
                   /\ calls'[i] \in ReconcilerCalls
                         => i > FirstCall(calls', "qualrout_execute")
             /\ \A c \in ReconcilerCalls : FirstCall(calls', c) > 0]_vars

\* a step judged steady state: the flow solver was skipped, the quality
\* solver ran
C27_Witness ==
    /\ StepDone
    /\ inSteadyState = TRUE
    /\ BetweenEvents = FALSE
    /\ ~Called("flowrout_execute")
    /\ Called("qualrout_execute")
    /\ Called("removeOutflows")

-----------------------------------------------------------------------------
(* A project whose providers return flows on either side of FLOW_TOL: one   *)
(* junction with an external and a dry-weather flow record, the outlet of   *)
(* one subcatchment with groundwater and the node of one interface-file     *)
(* entry.  Each mechanism computes one flow per step, of magnitude 3 or 20. *)

TolNetwork ==
    [JunctionToOutfall EXCEPT
        !.Node[1].extInflow = <<FlowRecord({3, 20})>>,
        !.Node[1].dwfInflow = <<[param |-> -1]>>]

TolForcing ==
    [NoForcing EXCEPT !.dwf = {-3, 20},
                      !.runoff = {3, 20},
                      !.gw = {<<3, 3>>, <<-20, -20>>},
                      !.rdiiN = {0, 1},
                      !.iface = {<<[node |-> 0, flow |-> 3, qual |-> <<>>]>>,
                                 <<[node |-> 0, flow |-> -20, qual |-> <<>>]>>},
                      !.sysOutflow = {20},
                      !.solverSteps = {2}]

InitTol ==
    /\ swmm_Event = <<>>
    /\ RuleStep = 0
    /\ RouteStep = 2
    /\ SkipSteadyState = FALSE
    /\ Pollut = <<>>
    /\ Subcatch = <<[outNode |-> 0, groundwater |-> <<[node |-> 0]>>,
                     area |-> 1, lidArea |-> 1]>>
    /\ IgnoreQuality = FALSE
    /\ Finflows = [mode |-> USE_FILE]
    /\ Env \in {TolForcing, [TolForcing EXCEPT !.inObj = "global"]}
    /\ ProjectLoaded(TolNetwork)

SpecTol == InitTol /\ [][Next]_vars

\* a flow that is not zero and whose magnitude is below FLOW_TOL
BelowTol(q) ==
    q # 0 /\ Abs(q) < FLOW_TOL

\* the mechanisms that test the computed flow against FLOW_TOL (lines 375,
\* 452, 579, 643, 683)
TolMechanisms ==
    Mechanisms \ {"WetWeather"}

\* C28: for every inflow mechanism (external, dry-weather, wet-weather
\* runoff, groundwater, RDII, interface) a computed flow whose magnitude is
\* below FLOW_TOL contributes exactly zero to the node's newLatFlow and to
\* the ledger's inflow totals: with one flow per mechanism and step, no
\* mechanism's contribution is a non-zero flow below FLOW_TOL.
C28_BelowTolZeroed ==
    \A m \in Mechanisms :
        ~BelowTol(agg[m].nodeFlow) /\ ~BelowTol(agg[m].ledFlow)

\* C28, amended: the external, dry-weather, groundwater, RDII and interface
\* mechanisms contribute nothing for a computed flow below FLOW_TOL; the
\* wet-weather runoff flow is added to newLatFlow and reported to the ledger
\* as computed, whatever its magnitude.
C28_BelowTolZeroedButRunoff ==
    /\ \A m \in TolMechanisms :
          ~BelowTol(agg[m].nodeFlow) /\ ~BelowTol(agg[m].ledFlow)
    /\ (StepDone /\ Called("subcatch_getWtdOutflow"))
          => /\ agg["WetWeather"].nodeFlow \in Env.runoff
             /\ agg["WetWeather"].ledFlow = agg["WetWeather"].nodeFlow

\* a step in which every mechanism computed a flow of magnitude 3: only the
\* runoff reached the node
C28_Witness ==
    /\ StepDone
    /\ Called("inflow_getExtInflow") /\ agg["External"].nodeFlow = 0
    /\ Called("inflow_getDwfInflow") /\ agg["DryWeather"].nodeFlow = 0
    /\ agg["Groundwater"].nodeFlow = 0
    /\ Called("iface_getIfaceFlow") /\ agg["Iface"].nodeFlow = 0
    /\ agg["WetWeather"].nodeFlow = 3
    /\ Node[1].newLatFlow = 3

-----------------------------------------------------------------------------
\* node 0 has a dry-weather flow record and an explicit record for
\* pollutant 0, which also has a default concentration
ExplicitAndDefault ==
    /\ Len(Node) > 0 /\ Len(Pollut) > 0
    /\ Node[1].dwfInflow = <<[param |-> -1], [param |-> 0]>>
    /\ Pollut[1].dwfConcen > 0

\* the dry-weather flow q was added and the net load added and reported is
\* q * e for a value e the provider returns
NetLoadIsExplicit ==
    /\ agg["DryWeather"].nodeFlow \in Env.dwf
    /\ agg["DryWeather"].nodeFlow > 0
    /\ \E e \in Env.dwf :
          /\ agg["DryWeather"].nodeQual[1] = agg["DryWeather"].nodeFlow * e
          /\ agg["DryWeather"].ledQual[1] = agg["DryWeather"].nodeFlow * e

\* C29: for a node with dry-weather flow q > 0 and a pollutant p that has
\* both a default concentration c > 0 and an explicit DryWeatherInflow
\* record of value e, the net amount addDryWeatherInflows adds to
\* Node.newQual[p], and the net amount it reports to the ledger, both equal
\* q * e (the default q * c is added once and subtracted once).
C29_ExplicitReplacesDefault ==
    (DryWeatherRan /\ ExplicitAndDefault) => NetLoadIsExplicit

\* the step in which the claim fails: inflow_getDwfInflow(inObj, ...) throws
\* at the flow record, before any flow or load is added
C29_ReferenceError ==
    /\ DryWeatherRan /\ ExplicitAndDefault
    /\ pc = "thrown" /\ exception = "ReferenceError"
    /\ agg["DryWeather"].nodeFlow = 0
    /\ agg["DryWeather"].nodeQual[1] = 0
    /\ agg["DryWeather"].ledQual[1] = 0

\* what holds of C29: if some other script defines a global inObj, the net
\* load is q times the value inflow_getDwfInflow returns for that object
C29_NetLoadIfInObjDefined ==
    (DryWeatherRan /\ ExplicitAndDefault /\ Env.inObj = "global")
        => NetLoadIsExplicit

\* with q = 20, c = 5 and a returned value of 20 the net load is 400
C29_NetLoadOfFourHundred ==
    /\ DryWeatherRan /\ ExplicitAndDefault
    /\ exception = "none"
    /\ agg["DryWeather"].nodeFlow = 20
    /\ agg["DryWeather"].nodeQual[1] = 400
    /\ agg["DryWeather"].ledQual[1] = 400

-----------------------------------------------------------------------------
(* A project whose dry-weather, groundwater, RDII and interface flows at    *)
(* the junction are each 20 or -20 in a step, with one pollutant that has   *)
(* a concentration in each of them.                                         *)

ReverseNetwork ==
    [QualityNetwork EXCEPT !.Node[1].extInflow = <<>>,
                           !.Node[1].dwfInflow = <<[param |-> -1]>>]

ReverseForcing ==
    [NoForcing EXCEPT !.dwf = {-20, 20},
                      !.gw = {<<-20, -20>>, <<20, 20>>},
                      !.rdiiN = {0, 1},
                      !.iface = {<<[node |-> 0, flow |-> -20, qual |-> <<1>>]>>,
                                 <<[node |-> 0, flow |-> 20, qual |-> <<1>>]>>},
                      !.sysOutflow = {20},
                      !.conc = {1},
                      !.solverSteps = {2}]

InitReverse ==
    /\ swmm_Event = <<>>
    /\ RuleStep = 0
    /\ RouteStep = 2
    /\ SkipSteadyState = FALSE
    /\ Pollut = <<[dwfConcen |-> 5, gwConcen |-> 1, rdiiConcen |-> 2]>>
    /\ Subcatch = <<[outNode |-> -1, groundwater |-> <<[node |-> 0]>>,
                     area |-> 1, lidArea |-> 1]>>
    /\ IgnoreQuality = FALSE
    /\ Finflows = [mode |-> USE_FILE]
    /\ Env \in {ReverseForcing, [ReverseForcing EXCEPT !.inObj = "global"]}
    /\ ProjectLoaded(ReverseNetwork)

SpecReverse == InitReverse /\ [][Next]_vars

\* the mechanism has come to a flow in the latest routing_execute
CameToFlow(m) ==
    /\ lastOp = "routing_execute"
    /\ CASE m = "DryWeather" -> Called("addDryWeatherInflows")
         [] m = "Groundwater" -> Called("addGroundwaterInflows")
         [] m = "RDII" -> Called("rdii_getRdiiFlow")
         [] m = "Iface" -> Called("iface_getIfaceFlow")

\* the mechanism's flow of 20 or -20 was added and reported, and with it a
\* load only if the flow is positive
LoadOnlyForInflow(m) ==
    /\ agg[m].nodeFlow \in {-20, 20}
    /\ agg[m].ledFlow = agg[m].nodeFlow
    /\ agg[m].nodeFlow <= 0
          => agg[m].nodeQual[1] = 0 /\ agg[m].ledQual[1] = 0
    /\ agg[m].nodeFlow > 0
          => agg[m].nodeQual[1] > 0 /\ agg[m].ledQual[1] = agg[m].nodeQual[1]

\* C30: for the dry-weather, groundwater, RDII and interface mechanisms,
\* pollutant load is applied only when the mechanism's flow q at the node is
\* > 0: for q <= 0 nothing is added to Node.newQual and nothing is reported
\* to massbal_addInflowQual, while the (negative) flow itself is still added
\* to newLatFlow and reported to the ledger.
C30_LoadOnlyForPositiveFlow ==
    \A m \in {"DryWeather", "Groundwater", "RDII", "Iface"} :
        CameToFlow(m) => LoadOnlyForInflow(m)

\* what holds of C30: the groundwater and interface mechanisms do as
\* claimed, and so does the dry-weather mechanism if some other script
\* defines a global inObj
C30_LoadOnlyForPositiveFlowWhereReached ==
    /\ \A m \in {"Groundwater", "Iface"} : CameToFlow(m) => LoadOnlyForInflow(m)
    /\ (CameToFlow("DryWeather") /\ Env.inObj = "global")
          => LoadOnlyForInflow("DryWeather")

\* a step in which an RDII flow exists: rdii_getRdiiFlow(i, j, q) leaves j
\* and q undefined and Node[j] throws before any flow is added
C30_RdiiTypeError ==
    /\ CameToFlow("RDII")
    /\ pc = "thrown" /\ exception = "TypeError"
    /\ agg["RDII"].nodeFlow = 0 /\ agg["RDII"].ledFlow = 0

\* a step in which the groundwater and interface flows are both -20: the
\* node's lateral inflow has them, no load was added
C30_NegativeFlowsAdded ==
    /\ StepDone
    /\ agg["Groundwater"].nodeFlow = -20 /\ agg["Groundwater"].ledQual[1] = 0
    /\ agg["Iface"].nodeFlow = -20 /\ agg["Iface"].ledQual[1] = 0
    /\ agg["DryWeather"].nodeFlow = -20 /\ agg["DryWeather"].ledQual[1] = 0
    /\ Node[1].newLatFlow = -60

-----------------------------------------------------------------------------
(* A project for the outflow reconciler: the junction has a direct inflow   *)
(* of 20 or -20, the outfall a direct inflow of 0 and, after a step in      *)
(* which the solver takes 40 out of it, a reverse flow; every node's system *)
(* outflow is 20 or -20 and the quality solver leaves a concentration of 2. *)

OutflowNetwork ==
    [QualityNetwork EXCEPT !.Node[1].extInflow = <<FlowRecord({-20, 20})>>,
                           !.Node[2].extInflow = <<FlowRecord({0})>>]

OutflowForcing ==
    [NoForcing EXCEPT !.sysOutflow = {-20, 20},
                      !.solver = {<<0, 0>>, <<0, 40>>},
                      !.conc = {2},
                      !.solverSteps = {2}]

InitOutflow ==
    /\ swmm_Event = <<>>
    /\ RuleStep = 0
    /\ RouteStep = 2
    /\ SkipSteadyState = FALSE
    /\ Pollut = OnePollutant
    /\ Subcatch = <<>>
    /\ IgnoreQuality = FALSE
    /\ Finflows = [mode |-> NO_FILE]
    /\ Env = OutflowForcing
    /\ ProjectLoaded(OutflowNetwork)

SpecOutflow == InitOutflow /\ [][Next]_vars

\* the mass leaving through the negative lateral inflows of the first n
\* nodes of N (lines 843-851)
RECURSIVE LatOutflowQual(_, _)
LatOutflowQual(N, n) ==
    IF n = 0 THEN 0
    ELSE (IF N[n].newLatFlow < 0 THEN -N[n].newLatFlow * N[n].newQual[1] ELSE 0)
         + LatOutflowQual(N, n - 1)

\* what removeOutflows has reported after a step in which every node has a
\* system outflow of 20 or -20 and a concentration of 2: each positive
\* outflow once as outflow with its mass, each negative one once as external
\* inflow beside the direct inflows, and the mass of the negative lateral
\* inflows as outflow quality
OutflowsReported ==
    /\ massbal.outflow = 20 * CallCount("massbal_addOutflowFlow")
    /\ massbal.outflow \in {20 * k : k \in 0..Len(Node)}
    /\ massbal.flow["EXTERNAL_INFLOW"]
          = agg["External"].nodeFlow + (20 * Len(Node) - massbal.outflow)
    /\ massbal.outQual[1] = 2 * massbal.outflow + LatOutflowQual(Node, Len(Node))

\* C31: in removeOutflows, for each node with system outflow q: if q > 0 it
\* is reported once as ledger outflow together with q * newQual[p] per
\* pollutant and the flooding flag; if q < 0 its magnitude is reported once
\* as EXTERNAL_INFLOW and nothing as outflow; a node with newLatFlow < 0 has
\* -newLatFlow * newQual[p] reported as non-flooded outflow quality and no
\* additional flow; an outfall's reverse flow enters the external-inflow
\* total exactly once.
C31_OutflowsReportedWithFlag ==
    StepDone => (OutflowsReported /\ massbal.outFlags \subseteq {"true", "false"})

\* what holds of C31: the flows and masses are reported as claimed; the flag
\* handed to the ledger with a system outflow is the undefined local
C31_OutflowsReportedFlagUndefined ==
    StepDone
        => /\ OutflowsReported
           /\ massbal.outFlags \subseteq {Undefined, "false"}
           /\ massbal.outflow > 0 => Undefined \in massbal.outFlags

\* a step in which the junction's outflow of 20 was reported with an
\* undefined flag, the outfall's -20 as external inflow, and the junction's
\* lateral inflow of -20 as 40 of outflow mass
C31_UndefinedFlag ==
    /\ StepDone
    /\ massbal.outflow = 20
    /\ Node[1].newLatFlow = -20
    /\ massbal.flow["EXTERNAL_INFLOW"] = 0
    /\ massbal.outQual[1] = 80
    /\ massbal.outFlags = {Undefined, "false"}

-----------------------------------------------------------------------------
\* e put into the list s, sorted by start, behind every event of s that
\* starts no later than e
RECURSIVE InsertBehindTies(_, _)
InsertBehindTies(s, e) ==
    IF s = <<>> THEN <<e>>
    ELSE IF s[Len(s)].start <= e.start THEN Append(s, e)
    ELSE Append(InsertBehindTies(SubSeq(s, 1, Len(s) - 1), e), s[Len(s)])

\* the first n events of ev in ascending order of start, events with equal
\* starts in their order in ev
RECURSIVE StableOrder(_, _)
StableOrder(ev, n) ==
    IF n = 0 THEN <<>>
    ELSE InsertBehindTies(StableOrder(ev, n - 1), ev[n])

\* the list sortEvents returns is the stable ordering of the entered list,
\* with the overlaps adjusted
KeptTieOrder ==
    swmm_Event = AdjustOverlaps(StableOrder(eventsIn, Len(eventsIn)), 1)

\* C32: sortEvents is a stable sort: events that have equal start times keep
\* their relative input order in the output, for every input list.
C32_StableSort ==
    pc = "sorted" => KeptTieOrder

\* C32, amended: events with equal start times keep their relative input
\* order if the list has at most two events or is entered in ascending
\* order of start; an exchange over a tie can reverse it otherwise.
C32_StableForTwoOrSorted ==
    (pc = "sorted" /\ (Len(eventsIn) <= 2 \/ Sorted(eventsIn))) => KeptTieOrder

\* two events with the same start and different ends, returned as entered
C32_Witness ==
    /\ pc = "sorted"
    /\ Len(eventsIn) = 2
    /\ eventsIn[1].start = eventsIn[2].start
    /\ eventsIn[1].end < eventsIn[2].end
    /\ swmm_Event = eventsIn

\* starts 2, 2, 1: the exchange of the first with the third event puts the
\* second event with start 2 before the first
C32_TieReversed ==
    /\ pc = "sorted"
    /\ Len(eventsIn) = 3
    /\ eventsIn[1].start = 2 /\ eventsIn[2].start = 2 /\ eventsIn[3].start = 1
    /\ eventsIn[1].end # eventsIn[2].end
    /\ swmm_Event[2] = eventsIn[2]
    /\ swmm_Event[3] = eventsIn[1]

-----------------------------------------------------------------------------
\* the ways of arranging n events
Arrangements(n) ==
    {f \in [1..n -> 1..n] : \A i, j \in 1..n : i # j => f[i] # f[j]}

\* out holds the events of in in the arrangement f, each with its start as
\* entered and its end cut to the start of the event behind it where that
\* is smaller
PermutedAndClipped(in, out, f) ==
    \A i \in 1..Len(out) :
        /\ out[i].start = in[f[i]].start
        /\ out[i].end = IF i < Len(out) /\ out[i + 1].start < in[f[i]].end
                        THEN out[i + 1].start
                        ELSE in[f[i]].end
        /\ out[i].end <= in[f[i]].end

\* C33: sortEvents only permutes events and shrinks ends: the multiset of
\* start times is unchanged (no start is ever clipped), the number of events
\* is unchanged, and each event's final end equals min(its original end, the
\* start of the event after it in sorted order) and is never larger than its
\* original end.
C33_PermutesAndShrinksEnds ==
    pc = "sorted"
        => /\ Len(swmm_Event) = Len(eventsIn)
           /\ \E f \in Arrangements(Len(eventsIn)) :
                 PermutedAndClipped(eventsIn, swmm_Event, f)

\* three events entered in descending order of start, the last entered
\* overlapping the one before it: it comes first, with its end cut
C33_Witness ==
    /\ pc = "sorted"
    /\ Len(eventsIn) = 3
    /\ eventsIn[1].start > eventsIn[2].start
    /\ eventsIn[2].start > eventsIn[3].start
    /\ swmm_Event[1].start = eventsIn[3].start
    /\ swmm_Event[1].end < eventsIn[3].end
    /\ swmm_Event[1].end = eventsIn[2].start
    /\ swmm_Event[2] = eventsIn[2]
    /\ swmm_Event[3] = eventsIn[1]

-----------------------------------------------------------------------------
\* C34: after every error-free routing_execute(step), OldRoutingTime equals
\* the NewRoutingTime value before the call and NewRoutingTime =
\* OldRoutingTime + 1000 * step, also on steps between events;
\* routing_getRoutingStep never changes either, so for positive steps
\* NewRoutingTime is strictly increasing and OldRoutingTime <=
\* NewRoutingTime in every reachable state.
C34_ClockAdvances ==
    [][/\ ExecuteRuns
          => /\ OldRoutingTime' = NewRoutingTime
             /\ NewRoutingTime' = OldRoutingTime' + 1000 * routingStep
             /\ routingStep > 0 => NewRoutingTime' > NewRoutingTime
       /\ GetRoutingStepRuns
          => UNCHANGED <<OldRoutingTime, NewRoutingTime>>
       /\ OldRoutingTime <= NewRoutingTime
       /\ OldRoutingTime' <= NewRoutingTime']_vars

\* a step between events has followed another step: the clock went on by
\* the step from where the step before had left it
C34_Witness ==
    /\ StepDone
    /\ Len(swmm_Event) > 0
    /\ BetweenEvents = TRUE
    /\ inSteadyState = TRUE
    /\ OldRoutingTime > 0
    /\ NewRoutingTime = OldRoutingTime + 1000 * routingStep

-----------------------------------------------------------------------------
(* One inflow procedure on its own, called twice for the same instant: the  *)
(* providers return the same values in both calls.  The nodes' lateral      *)
(* inflows and the ledger's totals start at zero, as lines 239 and 252-257  *)
(* leave them.                                                              *)

TwiceNetworks ==
    {[InflowNetwork EXCEPT !.Node[1].extInflow[2] = FlowRecord({q})] : q \in {0, 20}}

TwiceForcings ==
    {[NoForcing EXCEPT !.inObj = o,
                       !.dwf = {d},
                       !.runoff = {r},
                       !.washoff = {3},
                       !.gw = {<<g, g>>},
                       !.rdiiN = {n},
                       !.iface = {fi}] :
        o \in {"undeclared", "global"}, d \in {0, 20}, r \in {0, 20},
        g \in {0, 20}, n \in {0, 1},
        fi \in {<<>>, <<[node |-> 0, flow |-> 20, qual |-> <<1>>]>>}}

InitTwice ==
    /\ swmm_Event = <<>>
    /\ RuleStep = 0
    /\ RouteStep = 2
    /\ SkipSteadyState = FALSE
    /\ Pollut = OnePollutant
    /\ Subcatch = <<[outNode |-> 0, groundwater |-> <<[node |-> 0]>>,
                     area |-> 1, lidArea |-> 1]>>
    /\ IgnoreQuality = FALSE
    /\ Finflows = [mode |-> USE_FILE]
    /\ Env \in TwiceForcings
    /\ \E net \in TwiceNetworks : ProjectLoaded(net)

InflowProcedures ==
    {"addExternalInflows", "addDryWeatherInflows", "addWetWeatherInflows",
     "addGroundwaterInflows", "addRdiiInflows", "addIfaceInflows"}

\* the procedure of that name applied to S with the providers' values F
InflowProcedure(name, S, F) ==
    CASE name = "addExternalInflows" -> addExternalInflows(S, F)
      [] name = "addDryWeatherInflows" -> addDryWeatherInflows(S, F, Pollut)
      [] name = "addWetWeatherInflows" ->
             addWetWeatherInflows(S, F, Pollut, Subcatch, OldRoutingTime)
      [] name = "addGroundwaterInflows" ->
             addGroundwaterInflows(S, F, Pollut, Subcatch, OldRoutingTime)
      [] name = "addRdiiInflows" -> addRdiiInflows(S, F)
      [] name = "addIfaceInflows" -> addIfaceInflows(S, F, Pollut, Finflows)

\* one call of an inflow procedure; the second call is of the same one
RunInflowProcedure ==
    /\ pc \in {"start", "once"}
    /\ pc' = (IF pc = "start" THEN "once" ELSE "twice")
    /\ \E name \in InflowProcedures, F \in StepForcings :
          /\ pc = "once" => lastOp = name
          /\ lastOp' = name
          /\ \E S \in {InflowProcedure(name,
                                        [Node |-> Node, massbal |-> massbal,
                                         agg |-> agg, calls |-> <<>>,
                                         exc |-> "none"], F)} :
                /\ Node' = S.Node
                /\ massbal' = S.massbal
                /\ agg' = S.agg
                /\ calls' = S.calls
                /\ exception' = S.exc
    /\ UNCHANGED <<schedVars, ErrorCode, SortedLinks, swmm_Event, eventsIn,
                   Link, Storage, Conduit, Outfall, hasChanged, cfgVars,
                   routingStep, inSteadyState>>

NextTwice == RunInflowProcedure

SpecTwice == InitTwice /\ [][NextTwice]_vars

SecondRun ==
    pc = "once" /\ pc' = "twice"

\* C35: each inflow procedure is idempotent for a fixed instant: running it
\* twice in a row for the same date/time leaves every node's
\* newLatFlow/newQual and the ledger totals the same as running it once.
C35_Idempotent ==
    [][SecondRun => (Node' = Node /\ massbal' = massbal)]_vars

\* C35, amended: each inflow procedure adds to what it finds: a second run
\* for the same instant adds the same flows and loads again, so that every
\* node's newLatFlow/newQual and the ledger's inflow totals are twice what
\* they are after one run (and the same only where the one run added
\* nothing).
C35_SecondRunAddsAgain ==
    [][SecondRun
          => /\ \A j \in 1..Len(Node) :
                   /\ Node'[j].newLatFlow = 2 * Node[j].newLatFlow
                   /\ \A p \in 1..Len(Pollut) :
                         Node'[j].newQual[p] = 2 * Node[j].newQual[p]
             /\ \A c \in Categories :
                   /\ massbal'.flow[c] = 2 * massbal.flow[c]
                   /\ \A p \in 1..Len(Pollut) :
                         massbal'.qual[c][p] = 2 * massbal.qual[c][p]]_vars

\* addWetWeatherInflows has run twice with a runoff of 20 and a washoff of 3
C35_Witness ==
    /\ pc = "twice"
    /\ lastOp = "addWetWeatherInflows"
    /\ Node[1].newLatFlow = 40
    /\ Node[1].newQual[1] = 6
    /\ massbal.flow["WET_WEATHER_INFLOW"] = 40
    /\ massbal.qual["WET_WEATHER_INFLOW"][1] = 6

-----------------------------------------------------------------------------
(* addExternalInflows on its own, for an outfall with a concentration       *)
(* record, a flow record and a mass record (a record of neither of the two  *)
(* other types) of the one pollutant.  The direct inflow is 0, 3 or -3      *)
(* (below FLOW_TOL) or 20; the outfall's net inflow of the step before is   *)
(* -40, 0 or 40.                                                            *)

MassRecord(vals) ==
    [type |-> CONCEN_INFLOW + 1, param |-> 0, vals |-> vals]

OutfallNetworks ==
    {[QualityNetwork EXCEPT
         !.Node[1].extInflow = <<>>,
         !.Node[2].extInflow = <<[type |-> CONCEN_INFLOW, param |-> 0, vals |-> {c}],
                                 FlowRecord({x}), MassRecord({m})>>,
         !.Node[2].oldNetInflow = o] :
        c \in {1, 2}, x \in {-3, 0, 3, 20}, m \in {0, 7}, o \in {-40, 0, 40}}

InitOutfallInflow ==
    /\ swmm_Event = <<>>
    /\ RuleStep = 0
    /\ RouteStep = 2
    /\ SkipSteadyState = FALSE
    /\ Pollut = OnePollutant
    /\ Subcatch = <<>>
    /\ IgnoreQuality = FALSE
    /\ Finflows = [mode |-> NO_FILE]
    /\ Env = NoForcing
    /\ \E net \in OutfallNetworks : ProjectLoaded(net)

SpecOutfallInflow == InitOutfallInflow /\ [][NextTwice]_vars

\* the one value an inflow record of the outfall returns
RecordValue(k) ==
    CHOOSE v \in Node[2].extInflow[k].vals : TRUE

\* addExternalInflows has run once for an outfall with a reverse flow and a
\* direct inflow below FLOW_TOL
ReverseFlowBelowTol ==
    /\ pc = "once"
    /\ lastOp = "addExternalInflows"
    /\ Len(Node) = 2 /\ Len(Node[2].extInflow) = 3
    /\ Node[2].type = OUTFALL
    /\ Node[2].oldNetInflow < 0
    /\ Abs(RecordValue(2)) < FLOW_TOL

\* C36: in addExternalInflows the flow-tolerance zeroing is applied before
\* the outfall reverse-flow correction: for an outfall with oldNetInflow < 0
\* and a direct inflow of magnitude below FLOW_TOL, the flow used to scale
\* concentration-type pollutant records is exactly -oldNetInflow, so each
\* CONCEN_INFLOW record adds concentration * (q - oldNetInflow), with q the
\* zeroed flow, to newQual and the ledger while MASS_INFLOW records are
\* added unscaled.
C36_ZeroedBeforeCorrection ==
    ReverseFlowBelowTol
        => /\ Node[2].newLatFlow = 0
           /\ massbal.flow["EXTERNAL_INFLOW"] = 0
           /\ Node[2].newQual[1]
                 = RecordValue(1) * (0 - Node[2].oldNetInflow) + RecordValue(3)
           /\ massbal.qual["EXTERNAL_INFLOW"][1] = Node[2].newQual[1]

\* a direct inflow of 3, a reverse flow of 40, a concentration of 2 and a
\* mass inflow of 7: the load is 2 * 40 + 7, not 2 * 43 + 7
C36_Witness ==
    /\ ReverseFlowBelowTol
    /\ RecordValue(2) = 3
    /\ Node[2].oldNetInflow = -40
    /\ RecordValue(1) = 2
    /\ RecordValue(3) = 7
    /\ Node[2].newQual[1] = 87

=============================================================================
